---------------------------- MODULE Spec2Model ----------------------------
(***************************************************************************)
(* A model of the unpack/repack orchestration engine of MIO-KITCHEN        *)
(* (src/src/tkui/tool.py): the project workspace, the unpack orchestrator, *)
(* the partition registry, the size estimator, the compressed-transfer     *)
(* pipeline and the dynamic-partition synthesizer.                         *)
(*                                                                         *)
(* File names are sequences of tokens: a stem ("sys", "odm", ...) followed *)
(* by the tokens "_a" and "_b" where the name carries them, so that        *)
(* str.endswith('_a.img') and str.replace('_a', '') are computed as the    *)
(* code computes them.  The content of an image is abstracted to what the  *)
(* format classifier answers for it.                                       *)
(***************************************************************************)
EXTENDS Integers, Sequences, FiniteSets, TLC

VARIABLES
    proj,   \* the current project: name set, directories on disk, layout
    fs,     \* the files of the project's working directory
    reg,    \* the persisted registry config/parts_info
    call,   \* the unpack / pack calls in flight
    gfs,    \* a GetFolderSize object
    rl,     \* a resize-operation list and its patch
    cv,     \* a FormatConversion run
    psup,   \* a pack_super call
    dlg,    \* a PackSuper dialog
    procs,  \* the threads that run call() and states.open_pids
    sg,     \* the numbered segments of one transfer file and their reassembly
    mk,     \* an mke2fs call
    rd,     \* a PackSuper.read_list call
    pm,     \* the project directories and ProjectMenuUtils.set_project
    bt      \* an unpack_boot / dboot call and the process's working directory

mainVars == <<proj, fs, reg, call>>

\* One variable for each component that is checked on its own.
opVars == <<sg, mk, rd, pm, bt>>

unitVars == <<gfs, rl, cv, psup, dlg, procs, sg, mk, rd, pm, bt>>

vars == <<proj, fs, reg, call, gfs, rl, cv, psup, dlg, procs, sg, mk, rd, pm, bt>>

\* The value of a component's variable while the component is not in use.
Idle == [pc |-> "none"]

OpsIdle == sg = Idle /\ mk = Idle /\ rd = Idle /\ pm = Idle /\ bt = Idle

-----------------------------------------------------------------------------
(* Generic helpers *)

Remove(f, k) == [x \in (DOMAIN f) \ {k} |-> f[x]]

\* F applied to the value of x, with x computed once.
Once(x, F(_)) == CHOOSE r \in {F(y) : y \in {x}} : TRUE

Put(f, k, v) == (k :> v) @@ f

RECURSIVE Perms(_)
Perms(S) ==
    IF S = {} THEN {<<>>}
    ELSE UNION {{<<x>> \o p : p \in Perms(S \ {x})} : x \in S}

Range(s) == {s[k] : k \in 1..Len(s)}

-----------------------------------------------------------------------------
(* Project workspace: ProjectManager *)

\* current_work_path(): in the split layout the Source directory (and the
\* project directory above it) is created when it is missing and a project
\* name is set.  Returns the project state after the call.
current_work_path(p) ==
    IF p.struct = "split" /\ ~(p.dir /\ p.src) /\ p.name
    THEN [p EXCEPT !.dir = TRUE, !.src = TRUE]
    ELSE p

\* os.path.exists of the path current_work_path() returns for a named project.
WorkPathExists(p) ==
    IF p.struct = "single" THEN p.dir ELSE p.dir /\ p.src

\* exist(): <<project state after the call, result>>
exist(p) ==
    IF ~p.name THEN <<p, FALSE>>
    ELSE LET q == current_work_path(p) IN <<q, WorkPathExists(q)>>

-----------------------------------------------------------------------------
(* Files and the format classifier *)

\* What a file holds, as far as the engine can tell: t is the classifier's
\* answer for the file as it is, inner the answer once a sparse image has been
\* converted to raw, mnt the mount point in an ext superblock (<<>>: none),
\* lp the logical partitions a super image holds, z whether the file has
\* length 0.
Img(t, inner, mnt, lp, z) == [t |-> t, inner |-> inner, mnt |-> mnt, lp |-> lp, z |-> z]

Raw(t) == Img(t, t, <<>>, {}, FALSE)

Sparse(t) == Img("sparse", t, <<>>, {}, FALSE)

Empty == Img("unknown", "unknown", <<>>, {}, TRUE)

\* gettype(path): "fne" for a path that does not exist.
gettype(im, n) == IF n \in DOMAIN im THEN im[n].t ELSE "fne"

endswith_a(n) == Len(n) > 0 /\ n[Len(n)] = "_a"

endswith_b(n) == Len(n) > 0 /\ n[Len(n)] = "_b"

NotA(t) == t # "_a"

\* file_name.replace('_a', ''): every occurrence is removed.
replace_a(n) == SelectSeq(n, NotA)

\* The registry keys that are not partition names.
SuperInfoKey == <<"super_info">>

DatVerKey == <<"dat_ver">>

-----------------------------------------------------------------------------
(* A/B normalisation after lpunpack.  st = [im, err]: the image files of   *)
(* the working directory and whether an os call raised.                   *)

\* os.rename(src, dst): raises when src is missing, replaces dst.
os_rename(st, s, d) ==
    IF st.err THEN st
    ELSE IF s \notin DOMAIN st.im THEN [st EXCEPT !.err = TRUE]
    ELSE [st EXCEPT !.im = Put(Remove(st.im, s), d, st.im[s])]

\* os.remove(path): raises when the file is missing.
os_remove(st, f) ==
    IF st.err THEN st
    ELSE IF f \notin DOMAIN st.im THEN [st EXCEPT !.err = TRUE]
    ELSE [st EXCEPT !.im = Remove(st.im, f)]

\* if file_name.endswith('_b.img'): if not os.path.getsize(...): os.remove(...)
drop_empty_b(st, f) ==
    IF st.err \/ ~endswith_b(f) THEN st
    ELSE IF f \notin DOMAIN st.im THEN [st EXCEPT !.err = TRUE]
    ELSE IF st.im[f].z THEN os_remove(st, f) ELSE st

\* One iteration of the loop of the dedicated super path.
norm_super_file(st, f) ==
    LET s1 == IF endswith_a(f) /\ replace_a(f) \notin DOMAIN st.im
              THEN os_rename(st, f, replace_a(f))
              ELSE st
    IN drop_empty_b(s1, f)

\* One iteration of the loop of the nested super path.  Two different names
\* are never the same file (no hard links in a project directory).
norm_nested_file(st, f) ==
    LET s1 == IF ~endswith_a(f) THEN st
              ELSE IF f \in DOMAIN st.im /\ replace_a(f) \in DOMAIN st.im
                   THEN os_rename(os_remove(st, replace_a(f)), f, replace_a(f))
                   ELSE os_rename(st, f, replace_a(f))
    IN drop_empty_b(s1, f)

\* for file_name in os.listdir(work): the listing is taken once, in an order
\* the file system chooses.
RECURSIVE norm_super(_, _)
norm_super(st, order) ==
    IF order = <<>> THEN st
    ELSE norm_super(norm_super_file(st, Head(order)), Tail(order))

RECURSIVE norm_nested(_, _)
norm_nested(st, order) ==
    IF order = <<>> THEN st
    ELSE norm_nested(norm_nested_file(st, Head(order)), Tail(order))

\* lpunpack.unpack(super, work, chose): writes one image per logical
\* partition (all of them when chose is empty), replacing what is there.
RECURSIVE lp_write(_, _)
lp_write(im, lps) ==
    IF lps = {} THEN im
    ELSE LET e == CHOOSE x \in lps : TRUE
         IN lp_write(Put(Remove(im, e.n), e.n, IF e.z THEN Empty ELSE Raw("erofs")),
                     lps \ {e})

lpunpack(im, sup, chose) ==
    lp_write(im, {e \in im[sup].lp : chose = {} \/ e.n \in chose})

-----------------------------------------------------------------------------
(* Partition registry: JsonEdit on config/parts_info *)

\* JsonEdit.read(): the whole document.
JsonEdit_read(rg) == rg

\* JsonEdit.write(data): the whole document is replaced by data.
JsonEdit_write(rg, data) == data

-----------------------------------------------------------------------------
(* unpack(chose, form): one iteration of the loop over the loose partitions *)
(* (for i in chose).  w is the working directory, ps the in-memory          *)
(* registry (parts), rg the persisted one.  o holds what the external       *)
(* tools of this iteration do:                                              *)
(*   o.dec   zstd / Unxz / brotli succeeds                                  *)
(*   o.sdat  Sdat2img: "ok", "noimg" (no image written), "raise"            *)
(*   o.simg  utils.simg2img succeeds (its exception is caught otherwise)    *)
(*   o.tool  the tool of the image's type: "ok", "fail" (non-zero exit,     *)
(*           nothing extracted), "raise" (an exception unpack does not      *)
(*           catch: open(.., 'rb+'), ext4.Volume, imgextractor, lpunpack)   *)
(*   o.rm    os.remove of the extracted image succeeds                      *)
(*   o.ord   the order of os.listdir                                        *)
(* The result's res is "next" (the loop goes on), "return" (unpack returns  *)
(* True at once) or "raise" (an exception leaves unpack).                   *)

Listing(im, ord) == SelectSeq(ord, LAMBDA n : n \in DOMAIN im)

\* if os.access(f"{work}/{i}.zst"): call(['zstd', '--rm', '-d', ...]); return True
unpack_zst(i, s, o) ==
    [s EXCEPT !.w = IF o.dec
                    THEN [@ EXCEPT !.zst = @ \ {i}, !.raw = @ \cup {i}]
                    ELSE @,
              !.res = "return",
              !.failed = ~o.dec]

\* if os.access(f"{work}/{i}.new.dat.xz"): Unxz(...)
unpack_xz(i, s, o) ==
    IF s.res # "next" \/ i \notin DOMAIN s.w.xz THEN s
    ELSE IF ~o.dec THEN [s EXCEPT !.res = "raise", !.failed = TRUE]
    ELSE [s EXCEPT !.w = [@ EXCEPT !.dat = Put(@, i, s.w.xz[i]),
                                   !.xz = Remove(@, i)]]

\* if os.access(f"{work}/{i}.new.dat.br"): call(['brotli', '-dj', ...])
unpack_br(i, s, o) ==
    IF s.res # "next" \/ i \notin DOMAIN s.w.br THEN s
    ELSE IF ~o.dec THEN [s EXCEPT !.failed = TRUE]
    ELSE [s EXCEPT !.w = [@ EXCEPT !.dat = Put(@, i, s.w.br[i]),
                                   !.br = Remove(@, i)]]

\* if os.access(f"{work}/{i}.new.dat"): transfer-list replay
unpack_dat(i, s, o) ==
    IF s.res # "next" \/ i \notin DOMAIN s.w.dat THEN s
    ELSE IF s.w.dat[i].z THEN s
    ELSE IF i \notin DOMAIN s.w.tl THEN [s EXCEPT !.failed = TRUE]
    ELSE IF o.sdat = "raise" THEN [s EXCEPT !.res = "raise", !.failed = TRUE]
    ELSE LET im1 == IF o.sdat = "ok" THEN Put(s.w.img, i, s.w.dat[i]) ELSE s.w.img
             ps1 == Put(s.parts, DatVerKey, s.w.tl[i])
         IN IF i \in DOMAIN im1
            THEN [s EXCEPT !.parts = ps1, !.ver = s.w.tl[i],
                           !.w = [@ EXCEPT !.img = im1,
                                           !.dat = Remove(@, i),
                                           !.tl = Remove(@, i),
                                           !.patch = @ \ {i}],
                           !.failed = @ \/ o.sdat # "ok"]
            ELSE [s EXCEPT !.parts = ps1, !.ver = s.w.tl[i], !.failed = TRUE]

\* un_dtbo(i): the directory is made anew; on success the image is removed.
un_dtbo(i, s, o) ==
    [s EXCEPT !.w = [@ EXCEPT !.dirs = @ \cup {i},
                              !.img = IF o.tool = "ok" THEN Remove(@, i) ELSE @],
              !.failed = @ \/ o.tool # "ok"]

\* unpack_boot(i): a directory that is there is removed and the call ends
\* (rmdir returns None, which is not 0); otherwise the directory is made
\* and removed again when magiskboot fails.  The image stays.
unpack_boot(i, s, o) ==
    IF i \in s.w.dirs
    THEN [s EXCEPT !.w = [@ EXCEPT !.dirs = @ \ {i}], !.failed = TRUE]
    ELSE [s EXCEPT !.w = [@ EXCEPT !.dirs = IF o.tool = "ok" THEN @ \cup {i} ELSE @],
                   !.failed = @ \/ o.tool # "ok"]

\* if i == 'logo': check_img, then logo_dump (the directory is made anew).
unpack_logo(i, s, o) ==
    IF o.tool = "ok" THEN [s EXCEPT !.w = [@ EXCEPT !.dirs = @ \cup {i}]]
    ELSE IF o.tool = "fail" THEN [s EXCEPT !.failed = TRUE]
    ELSE [s EXCEPT !.res = "raise", !.failed = TRUE]

\* The step k is handed the image of partition i: s.steps keeps, in the
\* order of the calls, which step it was and what the classifier answers
\* for the image at that moment.
ran(s, k, i) == [s EXCEPT !.steps = Append(@, [step |-> k, t |-> gettype(s.w.img, i)])]

\* The first half of the image block: the registry record, dtbo, boot, logo,
\* vbmeta, the sparse conversion.
unpack_img_head(i, s, o) ==
    LET t0 == gettype(s.w.img, i)
        rec(x) == [x EXCEPT !.parts = IF t0 # "sparse" THEN Put(Remove(@, i), i, t0)
                                      ELSE Remove(@, i)]
        dtbo(x) == IF t0 = "dtbo" THEN un_dtbo(i, ran(x, "dtbo", i), o) ELSE x
        boot(x) == IF t0 \in {"boot", "vendor_boot"}
                   THEN unpack_boot(i, ran(x, "boot", i), o) ELSE x
        logo(x) == IF i = <<"logo">> THEN unpack_logo(i, ran(x, "logo", i), o) ELSE x
        vbmeta(x) == IF x.res = "next" /\ gettype(x.w.img, i) = "vbmeta"
                     THEN IF o.tool = "raise"
                          THEN [ran(x, "vbmeta", i) EXCEPT !.res = "raise", !.failed = TRUE]
                          ELSE ran(x, "vbmeta", i)
                     ELSE x
        simg(x) == IF x.res = "next" /\ gettype(x.w.img, i) = "sparse"
                   THEN IF o.simg
                        THEN [ran(x, "simg2img", i) EXCEPT
                                 !.w = [@ EXCEPT !.img = [@ EXCEPT ![i] =
                                                   [@ EXCEPT !.t = x.w.img[i].inner]]]]
                        ELSE [ran(x, "simg2img", i) EXCEPT !.failed = TRUE]
                   ELSE x
        keep(x) == IF x.res = "next" /\ i \notin DOMAIN x.parts
                   THEN [x EXCEPT !.parts = Put(@, i, gettype(x.w.img, i)), !.rec = TRUE]
                   ELSE [x EXCEPT !.rec = i \in DOMAIN x.parts]
    IN Once(Once(Once(Once(Once(Once(rec(s), dtbo), boot), logo), vbmeta), simg), keep)

\* if gettype(f"{work}/{i}.img") == 'super': the nested super image.
unpack_nested_super(i, s0, o) ==
    IF s0.res # "next" \/ gettype(s0.w.img, i) # "super" THEN s0
    ELSE LET s == ran(s0, "super", i) IN
    IF o.tool # "ok" THEN [s EXCEPT !.res = "raise", !.failed = TRUE]
    ELSE LET ps1 == Put(s.parts, SuperInfoKey, "info")
             im1 == lpunpack(s.w.img, i, {})
             st  == norm_nested([im |-> im1, err |-> FALSE], Listing(im1, o.ord))
         IN IF st.err
            THEN [s EXCEPT !.parts = ps1, !.w = [@ EXCEPT !.img = st.im],
                           !.res = "raise", !.failed = TRUE]
            ELSE [s EXCEPT !.w = [@ EXCEPT !.img = st.im],
                           !.reg = JsonEdit_write(@, ps1),
                           !.parts = <<>>,
                           !.sup = TRUE]

\* os.remove(f"{work}/{i}.img") inside try / except, once the directory exists
remove_extracted(i, s, o) ==
    IF i \notin s.w.dirs THEN s
    ELSE IF o.rm THEN [s EXCEPT !.w = [@ EXCEPT !.img = Remove(@, i)]]
    ELSE [s EXCEPT !.rmf = TRUE]

\* What a file-system extractor leaves when it succeeds: the directory and
\* the side files config/<name>_fs_config and config/<name>_file_contexts.
extracted(i, s) ==
    [s EXCEPT !.w = [@ EXCEPT !.dirs = @ \cup {i}, !.fsc = @ \cup {i}], !.xok = TRUE]

\* The file-system extraction at the end of the image block.
unpack_fs(i, s0, o) ==
    IF s0.res # "next" THEN s0
    ELSE LET ft == gettype(s0.w.img, i)
             ext == s0.w.img[i]
             s == IF ft \in {"ext", "romfs", "guoke_logo", "erofs", "f2fs"}
                  THEN ran(s0, ft, i) ELSE s0
         IN CASE ft = "ext" ->
                   IF o.tool = "raise" THEN [s EXCEPT !.res = "raise", !.failed = TRUE]
                   ELSE LET s1 == IF ext.mnt # i /\ ext.mnt # <<>> /\ i # <<"mi_ext">>
                                  THEN [s EXCEPT !.parts = Put(@, ext.mnt, "ext")]
                                  ELSE s
                            s2 == IF o.tool = "ok" THEN extracted(i, s1)
                                  ELSE [s1 EXCEPT !.failed = TRUE]
                        IN remove_extracted(i, s2, o)
              [] ft = "romfs" ->
                   \* fs.extract(work): into the working directory itself
                   IF o.tool = "raise" THEN [s EXCEPT !.res = "raise", !.failed = TRUE]
                   ELSE IF o.tool = "ok" THEN s
                   ELSE [s EXCEPT !.failed = TRUE]
              [] ft = "guoke_logo" ->
                   IF o.tool = "raise" THEN [s EXCEPT !.res = "raise", !.failed = TRUE]
                   ELSE IF o.tool = "ok"
                   THEN [s EXCEPT !.w = [@ EXCEPT !.dirs = @ \cup {i}]]
                   ELSE [s EXCEPT !.failed = TRUE]
              [] ft \in {"erofs", "f2fs"} ->
                   IF o.tool # "ok" THEN [s EXCEPT !.failed = TRUE]
                   ELSE remove_extracted(i, extracted(i, s), o)
              [] OTHER -> s

\* The body of `for i in chose`.
unpack_part(i, w, ps, rg, o) ==
    LET s0 == [w |-> w, parts |-> ps, reg |-> rg, res |-> "next", failed |-> FALSE,
               xok |-> FALSE, rmf |-> FALSE, rec |-> FALSE, sup |-> FALSE,
               steps |-> <<>>, ver |-> ""]
    IN IF i \in w.zst THEN unpack_zst(i, s0, o)
       ELSE LET dat(s) == unpack_dat(i, s, o)
                super(s) == unpack_nested_super(i, s, o)
                fs_(s) == unpack_fs(i, s, o)
                img(s) == IF s.res # "next" \/ i \notin DOMAIN s.w.img THEN s
                          ELSE Once(Once(unpack_img_head(i, s, o), super), fs_)
            IN Once(Once(unpack_br(i, unpack_xz(i, s0, o), o), dat), img)

-----------------------------------------------------------------------------
(* The names and the initial contents of a project *)

SuperName == <<"super">>

OdmA == <<"odm", "_a">>

OdmB == <<"odm", "_b">>

\* my_app_a: a partition name that holds _a before its slot suffix.
MyAppA == <<"my", "_a", "pp", "_a">>

\* The partitions a batch selects, in the order of the selection.
BatchNames == <<SuperName, <<"sys">>, <<"vnd">>>>

\* The image files whose names end in _a or _b, for the order of os.listdir.
SuffixedNames == {OdmA, OdmB, MyAppA}

ListOrders == Perms(SuffixedNames)

\* A Virtual-A/B super image: the _b slot of its partition is empty.
SuperImg == Img("super", "super", <<>>, {[n |-> OdmA, z |-> FALSE], [n |-> OdmB, z |-> TRUE]}, FALSE)

\* An ext image whose superblock names another mount point.
ExtImg == Img("ext", "ext", <<"sysroot">>, {}, FALSE)

ImgForms == {"erofs", "ext", "sparse", "boot", "super", "romfs"}

FormImg(f) ==
    CASE f = "ext" -> ExtImg
      [] f = "sparse" -> Sparse("f2fs")
      [] f = "super" -> SuperImg
      [] OTHER -> Raw(f)

\* The working directory in which partition n starts in the form fm[n]:
\*   "none"   no file of the partition
\*   "zst"    n.zst
\*   "br"     n.new.dat.br, n.transfer.list, n.patch.dat
\*   "dat"    n.new.dat without its transfer list
\*   an image form: n.img of that type
World(fm) ==
    LET of(f) == {n \in DOMAIN fm : fm[n] = f}
    IN [zst   |-> of("zst"),
        raw   |-> {},
        xz    |-> <<>>,
        br    |-> [n \in of("br") |-> Raw("erofs")],
        dat   |-> [n \in of("dat") |-> Raw("erofs")],
        tl    |-> [n \in of("br") |-> "3"],
        patch |-> of("br"),
        img   |-> [n \in {m \in DOMAIN fm : fm[m] \in ImgForms} |-> FormImg(fm[n])],
        oimg  |-> <<>>,
        dirs  |-> {},
        fsc   |-> {},
        cfg   |-> TRUE]

NoWorld == World(<<>>)

\* The project states: no current project, a named project whose directory
\* is missing, a project on disk; each in the single and the split layout.
ProjStates ==
    {[name |-> nm, dir |-> d, src |-> d /\ st = "split", struct |-> st] :
        nm \in BOOLEAN, d \in BOOLEAN, st \in {"single", "split"}}

Calls == {1}

IdleCall == [pc |-> "idle", form |-> "", chose |-> <<>>, idx |-> 0, parts |-> <<>>,
             ret |-> "", seen |-> {}, failed |-> {}, recd |-> {}, xok |-> {}, rmf |-> {},
             built |-> {}, del |-> FALSE, kept |-> FALSE, sup |-> FALSE, n |-> 0,
             dump |-> <<>>, steps |-> <<>>, ver |-> "", enc_ver |-> ""]

\* How many unpack calls one behaviour makes.
MaxCalls == 2

\* No component is in use.
UnitsIdle == gfs = Idle /\ rl = Idle /\ cv = Idle /\ psup = Idle /\ dlg = Idle
             /\ procs = Idle /\ OpsIdle

\* No project is open and no call is made.
MainIdle ==
    /\ proj = [name |-> FALSE, dir |-> FALSE, src |-> FALSE, struct |-> "single"]
    /\ fs = NoWorld
    /\ reg = <<>>
    /\ call = [c \in Calls |-> IdleCall]

-----------------------------------------------------------------------------
(* unpack(chose, form) *)

Outcomes ==
    [dec : BOOLEAN, sdat : {"ok", "noimg", "raise"}, simg : BOOLEAN,
     tool : {"ok", "fail", "raise"}, rm : BOOLEAN, ord : ListOrders]

\* The part of an outcome that the iteration over i can observe; the rest is
\* fixed so that equal steps are not enumerated twice.
Relevant(i, w, o) ==
    /\ (i \notin w.zst /\ i \notin DOMAIN w.br /\ i \notin DOMAIN w.xz => o.dec)
    /\ (i \in w.zst \/ (i \notin DOMAIN w.br /\ i \notin DOMAIN w.dat) => o.sdat = "ok")
    /\ (i \in w.zst \/ (i \in DOMAIN w.img /\ w.img[i].t # "sparse") => o.simg)
    /\ (i \in w.zst => o.tool = "ok")
    /\ (i \in w.zst \/ (i \in DOMAIN w.img /\ w.img[i].inner \notin {"ext", "erofs", "f2fs"})
          => o.rm)
    /\ (i \in w.zst \/ (i \in DOMAIN w.img /\ w.img[i].t # "super")
          => o.ord = CHOOSE x \in ListOrders : TRUE)

\* The start of a call: the precondition checks, the registry read, the
\* dispatch on form.  The loose-partition loop starts at the first name.
UnpackBegin(c, chose, form) ==
    /\ call[c].pc = "idle"
    /\ call[c].n < MaxCalls
    /\ LET e == exist(proj)
           q == current_work_path(e[1])
           ok == e[2] /\ WorkPathExists(q)
       IN /\ proj' = (IF e[2] THEN q ELSE e[1])
          /\ call' = [call EXCEPT ![c] =
                 IF ~ok \/ chose = <<>>
                 THEN [@ EXCEPT !.pc = "done", !.ret = "False", !.form = form,
                                !.chose = chose, !.dump = <<>>, !.steps = <<>>, !.ver = "",
                                !.seen = {}, !.failed = {}, !.recd = {},
                                !.xok = {}, !.rmf = {}, !.built = {}, !.n = @ + 1]
                 ELSE [@ EXCEPT !.pc = "loop", !.form = form, !.chose = chose,
                                !.dump = <<>>, !.steps = <<>>, !.ver = "",
                                !.idx = 1, !.parts = JsonEdit_read(reg), !.ret = "",
                                !.seen = {}, !.failed = {}, !.recd = {}, !.xok = {},
                                !.rmf = {}, !.built = {}, !.n = @ + 1]]
    /\ UNCHANGED <<fs, reg>>
    /\ UNCHANGED unitVars

\* One iteration of `for i in chose`.
UnpackStep(c) ==
    /\ call[c].pc = "loop"
    /\ call[c].form = ""
    /\ call[c].idx <= Len(call[c].chose)
    /\ LET i == call[c].chose[call[c].idx]
       IN \E o \in Outcomes :
            /\ Relevant(i, fs, o)
            /\ LET r == unpack_part(i, fs, call[c].parts, reg, o)
               IN /\ fs' = r.w
                  /\ reg' = r.reg
                  /\ call' = [call EXCEPT ![c] =
                        [@ EXCEPT !.parts = r.parts,
                                  !.idx = @ + 1,
                                  !.seen = @ \cup {i},
                                  !.failed = IF r.failed THEN @ \cup {i} ELSE @,
                                  !.recd = IF r.rec THEN @ \cup {i} ELSE @,
                                  !.sup = @ \/ r.sup,
                                  !.xok = IF r.xok THEN @ \cup {i} ELSE @,
                                  !.rmf = IF r.rmf THEN @ \cup {i} ELSE @,
                                  !.steps = r.steps,
                                  !.ver = IF r.ver # "" THEN r.ver ELSE @,
                                  !.pc = IF r.res = "next" THEN "loop" ELSE "done",
                                  !.ret = CASE r.res = "next" -> ""
                                            [] r.res = "return" -> "True"
                                            [] OTHER -> "None"]]
    /\ UNCHANGED <<proj, unitVars>>

\* a write that reads the registry again and adds the call's records to it
write_parts_merged(rg, parts) == JsonEdit_write(rg, parts @@ JsonEdit_read(rg))

\* json_.write(parts) at the end of unpack: parts is the document the call
\* has read at its start, with the records it has added.
write_parts(rg, parts) == JsonEdit_write(rg, parts)

\* After the loop: config is made when missing, the registry is written.
UnpackEnd(c) ==
    /\ call[c].pc = "loop"
    /\ call[c].form = ""
    /\ call[c].idx > Len(call[c].chose)
    /\ fs' = [fs EXCEPT !.cfg = TRUE]
    /\ reg' = write_parts(reg, call[c].parts)
    /\ call' = [call EXCEPT ![c] = [@ EXCEPT !.pc = "done", !.ret = "True", !.parts = <<>>]]
    /\ UNCHANGED <<proj, unitVars>>

\* unpack(chose, 'super'): the dedicated super path, a call of its own.
\* o.simg: simg2img succeeds; o.tool: lpunpack succeeds ("ok") or raises.
UnpackSuper(c, chose) ==
    /\ call[c].pc = "idle"
    /\ call[c].n < MaxCalls
    /\ exist(proj)[2]
    /\ chose # <<>>
    /\ \E o \in Outcomes :
        /\ o.dec /\ o.sdat = "ok" /\ o.rm /\ o.tool # "fail"
        /\ (gettype(fs.img, SuperName) # "sparse" => o.simg)
        /\ LET ps0 == JsonEdit_read(reg)
               im0 == IF gettype(fs.img, SuperName) = "sparse" /\ o.simg
                      THEN [fs.img EXCEPT ![SuperName] = [@ EXCEPT !.t = @.inner]]
                      ELSE fs.img
               isSuper == gettype(im0, SuperName) = "super"
               ps1 == Put(ps0, SuperInfoKey, "info")
               im1 == lpunpack(im0, SuperName, Range(chose))
               st  == norm_super([im |-> im1, err |-> FALSE], Listing(im1, o.ord))
               raised == isSuper /\ (o.tool = "raise" \/ st.err)
           IN /\ fs' = [fs EXCEPT !.img = IF ~isSuper \/ o.tool = "raise" THEN im0 ELSE st.im]
              /\ reg' = IF isSuper /\ ~raised THEN JsonEdit_write(reg, ps1) ELSE reg
              /\ call' = [call EXCEPT ![c] =
                    [@ EXCEPT !.pc = "done", !.form = "super", !.chose = chose,
                              !.parts = <<>>, !.seen = IF isSuper THEN {SuperName} ELSE {},
                              !.failed = IF raised THEN {SuperName} ELSE {},
                              !.recd = {}, !.xok = {}, !.rmf = {}, !.built = {},
                              !.sup = @ \/ (isSuper /\ ~raised),
                              !.ret = IF raised THEN "None" ELSE "True",
                              !.n = @ + 1]]
    /\ proj' = exist(proj)[1]
    /\ UNCHANGED unitVars

-----------------------------------------------------------------------------
(* unpack(chose, 'payload'): the payload reader Dumper *)

\* How a run of the reader ends.
DumpResults == {"ok", "RuntimeError", "other"}

\* a retry after every exception of the first run
retry_any(res) == res # "ok"

\* except RuntimeError: the exception of dumper.run() that is caught
retry(res) == res = "RuntimeError"

\* Dumper(payload.bin, work, images=chose).run(): a run that ends well has
\* written <name>.img for every chosen partition, one that raises has
\* written those of the first k.  The content of the images is not followed.
dumper_run(im, images, res, k) ==
    LET done == IF res = "ok" THEN Range(images)
                ELSE {images[j] : j \in 1..k}
    IN [n \in DOMAIN im \cup done |-> IF n \in done THEN Raw("unknown") ELSE im[n]]

\* dumper.run() of the payload branch; the call goes on to the slow run
\* when the exception is caught, returns True after a good run and is left
\* by every other exception, which the animation wrapper logs.
PayloadRun(c) ==
    /\ call[c].pc = "loop"
    /\ call[c].form = "payload"
    /\ call[c].dump = <<>>
    /\ \E res \in DumpResults, k \in 0..Len(call[c].chose) :
          /\ fs' = [fs EXCEPT !.img = dumper_run(@, call[c].chose, res, k)]
          /\ call' = [call EXCEPT ![c] =
                [@ EXCEPT !.dump = <<[slow |-> FALSE, res |-> res]>>,
                          !.pc = IF retry(res) THEN "loop" ELSE "done",
                          !.failed = IF res = "other" THEN Range(call[c].chose) ELSE {},
                          !.ret = CASE res = "ok" -> "True"
                                    [] retry(res) -> ""
                                    [] OTHER -> "None"]]
    /\ UNCHANGED <<proj, reg, unitVars>>

\* dumper.run(slow=True) in the except clause: its exception leaves unpack.
PayloadRetry(c) ==
    /\ call[c].pc = "loop"
    /\ call[c].form = "payload"
    /\ Len(call[c].dump) = 1
    /\ \E res \in DumpResults, k \in 0..Len(call[c].chose) :
          /\ fs' = [fs EXCEPT !.img = dumper_run(@, call[c].chose, res, k)]
          /\ call' = [call EXCEPT ![c] =
                [@ EXCEPT !.dump = Append(@, [slow |-> TRUE, res |-> res]),
                          !.pc = "done",
                          !.failed = IF res # "ok" THEN Range(call[c].chose) ELSE {},
                          !.ret = IF res = "ok" THEN "True" ELSE "None"]]
    /\ UNCHANGED <<proj, reg, unitVars>>

-----------------------------------------------------------------------------
(* Packxx.packrom: the file-system builders and rdi *)

out_img(w, pj) == IF pj.struct = "single" THEN w.img ELSE w.oimg

set_out_img(w, pj, f) ==
    IF pj.struct = "single" THEN [w EXCEPT !.img = f] ELSE [w EXCEPT !.oimg = f]

\* rdi(work, part_name): the directory and the side files of the partition
\* are removed when work/<part_name>.img exists.
rdi_keep(w, n) ==
    IF w.fsc = {} THEN [w EXCEPT !.cfg = FALSE] ELSE [w EXCEPT !.fsc = @ \ {n}]

rdi(w, n) ==
    IF w.fsc = {} THEN [w EXCEPT !.cfg = FALSE]
    ELSE IF n \in DOMAIN w.img
    THEN [w EXCEPT !.dirs = @ \ {n}, !.fsc = @ \ {n}]
    ELSE w

\* One iteration of `for i in self.lg`, for a partition that has its
\* fs_config: the builder of the registered type (ext4 for every type that
\* is neither erofs nor f2fs), then rdi when the delete option is set.
\* make_f2fs first creates work/<name>.img at its full length.
pack_part(n, w, pj, pd, del, b) ==
    LET ty   == IF n \in DOMAIN pd THEN pd[n] ELSE "unknown"
        kind == IF ty \in {"erofs", "f2fs"} THEN ty ELSE "ext"
        w1   == IF kind = "f2fs" THEN [w EXCEPT !.img = Put(@, n, Raw("unknown"))] ELSE w
        w2   == set_out_img(w1, pj, Put(out_img(w1, pj), n, Raw(kind)))
    IN IF n \notin w.fsc THEN [w |-> w, built |-> {}, failed |-> {}]
       ELSE IF b # "ok" THEN [w |-> w1, built |-> {}, failed |-> {n}]
       ELSE [w |-> IF del THEN rdi(w2, n) ELSE w2, built |-> {n}, failed |-> {}]

\* a loop that ends at the first builder that fails
RECURSIVE pack_loop_abort(_, _, _, _, _, _)
pack_loop_abort(lg, w, pj, pd, del, bs) ==
    IF lg = <<>> THEN [w |-> w, built |-> {}, failed |-> {}]
    ELSE LET r == pack_part(Head(lg), w, pj, pd, del, bs[Head(lg)])
             t == pack_loop_abort(Tail(lg), r.w, pj, pd, del, bs)
         IN IF r.failed # {} THEN r
            ELSE [w |-> t.w, built |-> r.built \cup t.built, failed |-> t.failed]

\* for i in self.lg; failed: the partitions whose builder has exited with
\* another status than 0 (lang.text75 is printed for each).
RECURSIVE pack_loop(_, _, _, _, _, _)
pack_loop(lg, w, pj, pd, del, bs) ==
    IF lg = <<>> THEN [w |-> w, built |-> {}, failed |-> {}]
    ELSE LET r == pack_part(Head(lg), w, pj, pd, del, bs[Head(lg)])
             t == pack_loop(Tail(lg), r.w, pj, pd, del, bs)
         IN [w |-> t.w, built |-> r.built \cup t.built,
             failed |-> r.failed \cup t.failed]

\* packrom() on the selection lg, with the delete option del (delywj); the
\* builders' exit codes are bs.
\* int(parts_dict.get('dat_ver', '4')): the version handed to datbr
dat_ver(pd) == IF DatVerKey \in DOMAIN pd THEN pd[DatVerKey] ELSE "4"

PackRom(c, lg, del) ==
    /\ call[c].pc = "idle"
    /\ call[c].n < MaxCalls
    /\ Range(lg) \subseteq fs.dirs
    /\ proj' = exist(proj)[1]
    /\ \E bs \in [Range(lg) -> {"ok", "fail"}] :
         LET r == IF exist(proj)[2]
                  THEN pack_loop(lg, fs, proj', JsonEdit_read(reg), del, bs)
                  ELSE [w |-> fs, built |-> {}, failed |-> {}]
         IN /\ fs' = r.w
            /\ call' = [call EXCEPT ![c] =
                  [@ EXCEPT !.pc = "done", !.form = "pack", !.chose = lg,
                            !.seen = {}, !.failed = r.failed, !.recd = {}, !.xok = {},
                            !.rmf = {}, !.built = r.built, !.del = del,
                            !.kept = @ \/ (~del /\ r.built # {}),
                            !.enc_ver = IF exist(proj)[2] THEN dat_ver(JsonEdit_read(reg))
                                        ELSE "",
                            !.ret = IF exist(proj)[2] THEN "None" ELSE "False",
                            !.n = @ + 1]]
    /\ UNCHANGED <<reg, unitVars>>

\* The call has returned; the next one may start.
CallReturn(c) ==
    /\ call[c].pc = "done"
    /\ call' = [call EXCEPT ![c] = [@ EXCEPT !.pc = "idle"]]
    /\ UNCHANGED <<proj, fs, reg, unitVars>>

-----------------------------------------------------------------------------
(* The project: unpack and pack calls, one after the other *)

MainNames == {SuperName, <<"sys">>}

MainForms == {"none", "erofs", "ext", "boot", "super", "romfs"}

Init ==
    /\ proj \in ProjStates
    /\ fs \in IF proj.dir /\ proj.name
              THEN {World(fm) : fm \in [MainNames -> MainForms]}
              ELSE {NoWorld}
    /\ reg = <<>>
    /\ call = [c \in Calls |-> IdleCall]
    /\ UnitsIdle

Next ==
    \E c \in Calls :
        \/ \E chose \in {<<>>, <<SuperName, <<"sys">>>>, <<<<"sys">>, SuperName>>} :
              UnpackBegin(c, chose, "")
        \/ UnpackStep(c)
        \/ UnpackEnd(c)
        \/ \E chose \in {<<OdmA>>, <<OdmA, OdmB>>} : UnpackSuper(c, chose)
        \/ \E lg \in {<<<<"sys">>>>, <<SuperName>>, <<<<"sys">>, SuperName>>}, del \in BOOLEAN :
              PackRom(c, lg, del)
        \/ CallReturn(c)

Spec == Init /\ [][Next]_vars

-----------------------------------------------------------------------------
(* Two unpack calls on one project, each in its own thread: their steps    *)
(* interleave, nothing in unpack keeps them apart.                         *)

RaceCalls == {1, 2}

RaceNames == {<<"sys">>, <<"vnd">>}

InitRace ==
    /\ proj \in {p \in ProjStates : p.name /\ p.dir /\ p.struct = "single"}
    /\ fs \in {World(fm) : fm \in [RaceNames -> {"erofs", "ext", "boot"}]}
    /\ reg = <<>>
    /\ call = [c \in RaceCalls |-> IdleCall]
    /\ UnitsIdle

NextRace ==
    \E c \in RaceCalls :
        \/ \E n \in RaceNames : (call[c].n = 0 /\ UnpackBegin(c, <<n>>, ""))
        \/ UnpackStep(c)
        \/ UnpackEnd(c)

SpecRace == InitRace /\ [][NextRace]_vars

-----------------------------------------------------------------------------
(* Payload unpacks, one after the other *)

InitPayload ==
    /\ proj \in ProjStates
    /\ fs \in IF proj.dir /\ proj.name
              THEN {World(fm) : fm \in [{<<"sys">>} -> {"none", "erofs"}]}
              ELSE {NoWorld}
    /\ reg = <<>>
    /\ call = [c \in Calls |-> IdleCall]
    /\ UnitsIdle

NextPayload ==
    \E c \in Calls :
        \/ \E chose \in {<<>>, <<<<"sys">>>>, <<<<"sys">>, <<"vnd">>>>} :
              UnpackBegin(c, chose, "payload")
        \/ PayloadRun(c)
        \/ PayloadRetry(c)
        \/ CallReturn(c)

SpecPayload == InitPayload /\ [][NextPayload]_vars

-----------------------------------------------------------------------------
(* One loose-partition batch over three partitions *)

BatchForms == {"none", "zst", "br", "dat", "erofs", "ext", "sparse"}

InitBatch ==
    /\ proj \in {p \in ProjStates : p.name /\ p.dir}
    /\ fs \in {World(fm) : fm \in [Range(BatchNames) -> BatchForms]}
    /\ reg = <<>>
    /\ call = [c \in Calls |-> IdleCall]
    /\ UnitsIdle

NextBatch ==
    \E c \in Calls :
        \/ (call[c].n = 0 /\ UnpackBegin(c, BatchNames, ""))
        \/ UnpackStep(c)
        \/ UnpackEnd(c)

SpecBatch == InitBatch /\ [][NextBatch]_vars

-----------------------------------------------------------------------------
(* Unpacking a super image, through the dedicated path or as a nested      *)
(* partition, over working directories with and without counterparts       *)

LpEntries ==
    {[n |-> OdmA, z |-> FALSE], [n |-> OdmB, z |-> TRUE], [n |-> OdmB, z |-> FALSE],
     [n |-> MyAppA, z |-> FALSE]}

\* The logical partitions of a super image: each name at most once.
LpSets == {l \in SUBSET LpEntries : \A x, y \in l : x.n = y.n => x = y}

InitAB ==
    /\ proj \in {p \in ProjStates : p.name /\ p.dir}
    /\ \E l \in LpSets, pre \in SUBSET {<<"odm">>} :
          fs = [NoWorld EXCEPT !.img = (SuperName :> Img("super", "super", <<>>, l, FALSE))
                                        @@ [n \in pre |-> Raw("erofs")]]
    /\ reg = <<>>
    /\ call = [c \in Calls |-> IdleCall]
    /\ UnitsIdle

NextAB ==
    \E c \in Calls :
        \/ (call[c].n = 0 /\ UnpackBegin(c, <<SuperName>>, ""))
        \/ UnpackStep(c)
        \/ UnpackEnd(c)
        \/ \E chose \in {<<OdmA>>, <<OdmA, OdmB>>, <<OdmA, OdmB, MyAppA>>} :
              (call[c].n = 0 /\ UnpackSuper(c, chose))

SpecAB == InitAB /\ [][NextAB]_vars

-----------------------------------------------------------------------------
(* GetFolderSize: the size of a directory's content, with the overhead of  *)
(* the file system, quantized.  self.size becomes a float when the         *)
(* overhead is added; it is kept as [i, f]: whole bytes and 64ths of a     *)
(* byte (size/16384*256 is size/64, exact in binary floating point).       *)

\* How many files the walked directory holds.
MaxFiles == 2

\* File sizes whose sums fall on both sides of the thresholds of rsize.
FileSizes == {0, 1, 63, 64, 4033, 1500000, 2064887, 2064888, 2068922, 5000000,
              103244406, 103244407}

\* len(name) of the entries that are not regular files.
NameLens == {3}

\* self.size += (self.size / 16384) * 256
\* if self.size > 100 * 1024 * 1024: self.size += 16 * (1024 ** 2)
get_dir_size(size) ==
    LET i == 65 * (size \div 64) + (size % 64)
        f == size % 64
    IN IF i > 100 * 1024 * 1024 \/ (i = 100 * 1024 * 1024 /\ f > 0)
       THEN [i |-> i + 16 * 1024 * 1024, f |-> f]
       ELSE [i |-> i, f |-> f]

\* rsize with its branches in the other order, the 1 MiB branch alive
rsize_1m(size, num) ==
    LET v == IF size.i < 1048576 \/ (size.i = 1048576 /\ size.f = 0) THEN 1048576
             ELSE IF size.i < 2097152 \/ (size.i = 2097152 /\ size.f = 0) THEN 2097152
             ELSE IF size.i % 4096 # 0 THEN size.i + (4096 - (size.i % 4096))
             ELSE size.i
    IN v \div num

\* rsize(size, num) with get = 2: the value left in self.rsize_v
rsize(size, num) ==
    LET v == IF size.i < 2097152 \/ (size.i = 2097152 /\ size.f = 0) THEN 2097152
             ELSE IF size.i < 1048576 \/ (size.i = 1048576 /\ size.f = 0) THEN 1048576
             ELSE IF size.i % 4096 # 0 THEN size.i + (4096 - (size.i % 4096))
             ELSE size.i
    IN v \div num

\* GetFolderSize(dir_, num, get): before the walk.
GfsNew(num, get) ==
    [pc |-> "walk", size |-> 0, files |-> 0, num |-> num, get |-> get,
     rsize_v |-> [i |-> 0, f |-> 0]]

\* One file of os.walk: its size is added; its name's length as well when
\* it is not a regular file; 1 when getsize raises.
GfsWalk(sz, kind) ==
    /\ gfs.pc = "walk"
    /\ gfs.files < MaxFiles
    /\ \E l \in NameLens :
          gfs' = [gfs EXCEPT !.files = @ + 1,
                             !.size = CASE kind = "file" -> @ + sz
                                        [] kind = "other" -> @ + l + sz
                                        [] OTHER -> @ + 1]
    /\ UNCHANGED <<mainVars, rl, cv, psup, dlg, procs, opVars>>

\* The walk is over: the overhead is added, rsize_v is set.
GfsFinish ==
    /\ gfs.pc = "walk"
    /\ LET t == get_dir_size(gfs.size)
       IN gfs' = [gfs EXCEPT !.pc = "done",
                             !.rsize_v = IF gfs.get = 1 THEN t
                                         ELSE [i |-> rsize(t, gfs.num), f |-> 0]]
    /\ UNCHANGED <<mainVars, rl, cv, psup, dlg, procs, opVars>>

InitSize ==
    /\ MainIdle
    /\ gfs \in {GfsNew(num, get) : num \in {1, 4096}, get \in {1, 2}}
    /\ rl = Idle /\ cv = Idle /\ psup = Idle /\ dlg = Idle /\ procs = Idle /\ OpsIdle

NextSize ==
    \/ \E sz \in FileSizes, kind \in {"file", "other", "error"} : GfsWalk(sz, kind)
    \/ GfsFinish

SpecSize == InitSize /\ [][NextSize]_vars

-----------------------------------------------------------------------------
(* GetFolderSize with get = 3: the resize-operation list                    *)
(* (dynamic_partitions_op_list) is patched with the quantized size.  Text   *)
(* is a sequence of tokens: words, single digits, " " and line ends; a      *)
(* partition name is a sequence of word tokens.                             *)

\* How many lines the operation list holds.
MaxLines == 2

DigitChars == <<"0", "1", "2", "3", "4", "5", "6", "7", "8", "9">>

IsDigit(t) == \E k \in 1..10 : DigitChars[k] = t

\* f"{size}" of a non-negative int
RECURSIVE Digits(_)
Digits(n) ==
    IF n < 10 THEN <<DigitChars[n + 1]>>
    ELSE Digits(n \div 10) \o <<DigitChars[(n % 10) + 1]>>

\* The partitions an operation list names, for the patched partitions
\* system and vendor.
ListNames ==
    {<<"system">>, <<"system", "_a">>, <<"system", "_b">>, <<"system", "_ext">>,
     <<"my_", "system">>, <<"vendor">>}

\* resize <name> <N>
ResizeLine(name, d) == <<"resize", " ">> \o name \o <<" ">> \o d

\* # Grow partition <name> from 0 to <N>
GrowLine(name, d) ==
    <<"#", " ", "Grow", " ", "partition", " ">> \o name
        \o <<" ", "from", " ", "0", " ", "to", " ">> \o d

\* add <name> <group>
AddLine(name) == <<"add", " ">> \o name \o <<" ", "group">>

ListLines ==
    {ResizeLine(n, <<"4", "2">>) : n \in ListNames}
        \cup {GrowLine(n, <<"7">>) : n \in ListNames}
        \cup {AddLine(<<"system">>), <<"remove_all_groups">>}

\* The text of a file: its lines, each with the line end eol.
RECURSIVE Text(_, _)
Text(lines, eol) ==
    IF lines = <<>> THEN <<>> ELSE Head(lines) \o <<eol>> \o Text(Tail(lines), eol)

\* f.read() in text mode: every line end becomes \n.
read_text(c) == [k \in 1..Len(c) |-> IF c[k] = "\r\n" THEN "\n" ELSE c[k]]

\* How many digits c starts with.
RECURSIVE DigitRun(_)
DigitRun(c) == IF c # <<>> /\ IsDigit(Head(c)) THEN 1 + DigitRun(Tail(c)) ELSE 0

StartsWith(c, pre) == Len(c) >= Len(pre) /\ SubSeq(c, 1, Len(pre)) = pre

\* re.sub(f"{pre}\\d+", f"{pre}{num}", c): every match, from the left, none
\* overlapping; \d+ takes all the digits that follow.
RECURSIVE re_sub(_, _, _)
re_sub(pre, num, c) ==
    IF c = <<>> THEN <<>>
    ELSE LET k == IF StartsWith(c, pre) THEN DigitRun(SubSeq(c, Len(pre) + 1, Len(c))) ELSE 0
         IN IF k > 0
            THEN pre \o num \o re_sub(pre, num, SubSeq(c, Len(pre) + k + 1, Len(c)))
            ELSE <<Head(c)>> \o re_sub(pre, num, Tail(c))

ResizePre(name) == <<"resize", " ">> \o name \o <<" ">>

GrowPre(name) ==
    <<"#", " ", "Grow", " ", "partition", " ">> \o name \o <<" ", "from", " ", "0", " ", "to", " ">>

\* rsizelist without the substitutions for <part_name>_a
rsizelist_no_a(part_name, size, content) ==
    re_sub(GrowPre(part_name), Digits(size),
           re_sub(ResizePre(part_name), Digits(size), read_text(content)))

\* rsizelist(part_name, size, file) on a file that exists: the new content.
rsizelist(part_name, size, content) ==
    LET c0 == read_text(content)
        c1 == re_sub(ResizePre(part_name), Digits(size), c0)
        c2 == re_sub(ResizePre(part_name \o <<"_a">>), Digits(size), c1)
        c3 == re_sub(GrowPre(part_name), Digits(size), c2)
        c4 == re_sub(GrowPre(part_name \o <<"_a">>), Digits(size), c3)
    IN c4

\* The content totals of the patched directory.
ListTotals == {1500000, 5000000}

RlNew(lines, eol, there) ==
    [pc |-> "new", lines |-> lines, file |-> IF there THEN Text(lines, eol) ELSE <<>>,
     there |-> there, dname |-> <<>>, size |-> 0, rsize_v |-> 0]

\* GetFolderSize(dir_, num, 3, list_f): rsize patches the list when the
\* file is there, then divides rsize_v by num.
GfsPatch(dname, total, num) ==
    /\ rl.pc = "new"
    /\ LET v == rsize(get_dir_size(total), 1)
       IN rl' = [rl EXCEPT !.pc = "done", !.dname = dname, !.size = v,
                           !.file = IF rl.there THEN rsizelist(dname, v, @) ELSE @,
                           !.rsize_v = v \div num]
    /\ UNCHANGED <<mainVars, gfs, cv, psup, dlg, procs, opVars>>

LineSeqs == UNION {[1..n -> ListLines] : n \in 0..MaxLines}

InitRsize ==
    /\ MainIdle
    /\ rl \in {RlNew(l, e, t) : l \in LineSeqs, e \in {"\n", "\r\n"}, t \in BOOLEAN}
    /\ gfs = Idle /\ cv = Idle /\ psup = Idle /\ dlg = Idle /\ procs = Idle /\ OpsIdle

NextRsize ==
    \E dname \in {<<"system">>, <<"vendor">>}, total \in ListTotals, num \in {1, 4096} :
        GfsPatch(dname, total, num)

SpecRsize == InitRsize /\ [][NextRsize]_vars

-----------------------------------------------------------------------------
(* FormatConversion.conversion: one selected item converted from hget to   *)
(* f_get (raw or sparse).  The files of the item <name> in the output      *)
(* directory:                                                               *)
(*   br, dat   <name>.new.dat.br, <name>.new.dat: "none", "empty", "full"  *)
(*   tl        <name>.transfer.list is there                                *)
(*   patch     <name>.patch.dat: "none", "empty", "full"                   *)
(*   img       <name>.img: "none", "raw", "sparse", "stale"                *)
(*   tmp       <name>.imgs, the output of img2simg: "none", "sparse", or   *)
(*             "stale" for a file that an earlier run has left             *)
(* o holds what the tools and the os do: o.dec brotli -d succeeds; o.sdat  *)
(* Sdat2img ("ok", "noimg", "raise"); o.simg img2simg writes its output;   *)
(* o.os the call of os that raises in img2simg and datbr ("none",          *)
(* "remove", "rename"); o.enc utils.img2sdat ("ok", "nodat", "raise");     *)
(* o.brc brotli -q succeeds.  log holds the tools that have run.           *)

ConvOutcomes ==
    [dec : BOOLEAN, sdat : {"ok", "noimg", "raise"}, simg : BOOLEAN,
     os : {"none", "remove", "rename"}, enc : {"ok", "nodat", "raise"}, brc : BOOLEAN]

\* call(['brotli', '-dj', <name>.new.dat.br]) when the file is there
conv_brotli(r, o) ==
    IF r.f.br = "none" \/ ~o.dec THEN r
    ELSE [r EXCEPT !.f = [@ EXCEPT !.dat = r.f.br, !.br = "none"]]

\* img2simg(path): the tool writes path + 's'; when that file is there the
\* image is removed and the file renamed to it, an exception of either
\* call being logged.
img2simg(r, o) ==
    LET wrote == r.f.img # "none" /\ o.simg
        tmp   == IF wrote THEN "sparse" ELSE r.f.tmp
        r1    == [r EXCEPT !.f = [@ EXCEPT !.tmp = tmp],
                           !.log = @ \cup {IF wrote THEN "img2simg:ok" ELSE "img2simg:fail"}]
    IN IF tmp = "none" THEN r1
       ELSE IF r.f.img = "none" \/ o.os = "remove" THEN r1
       ELSE IF o.os = "rename" THEN [r1 EXCEPT !.f = [@ EXCEPT !.img = "none"]]
       ELSE [r1 EXCEPT !.f = [@ EXCEPT !.img = tmp, !.tmp = "none"]]

\* call(['brotli', '-q', ..., '-j', <name>.new.dat, '-o', <name>.new.dat.br]):
\* -j removes the input when the output is written
brotli_q(r, o) ==
    IF r.f.dat # "none" /\ o.brc
    THEN [r EXCEPT !.f = [@ EXCEPT !.br = "full", !.dat = "none"],
                   !.log = @ \cup {"brotli:ok"}]
    ELSE [r EXCEPT !.log = @ \cup {"brotli:fail"}]

\* datbr(work, name, brl): enc_on is the form of the image that
\* utils.img2sdat is given.
datbr(r, brl, o) ==
    IF r.f.img = "none" THEN [r EXCEPT !.msgs = @ \cup {"text84"}]
    ELSE IF o.enc = "raise"
    THEN [r EXCEPT !.raised = TRUE, !.enc_on = r.f.img, !.log = @ \cup {"img2sdat:fail"}]
    ELSE LET dat == IF o.enc = "ok" THEN "full" ELSE r.f.dat
             r1  == [r EXCEPT !.enc_on = r.f.img, !.f = [@ EXCEPT !.dat = dat],
                              !.log = @ \cup {IF o.enc = "ok" THEN "img2sdat:ok"
                                              ELSE "img2sdat:fail"}]
         IN IF dat # "none" /\ o.os = "remove" THEN [r1 EXCEPT !.raised = TRUE]
            ELSE LET r2 == IF dat # "none" THEN [r1 EXCEPT !.f = [@ EXCEPT !.img = "none"]]
                           ELSE r1
                 IN IF brl = "dat" THEN r2
                    ELSE LET r3 == brotli_q(r2, o)
                         IN [r3 EXCEPT !.f = [@ EXCEPT !.dat = "none"]]

\* f_get == 'br', hget == 'dat': the .new.dat is removed when a .br is there
conv_dat_br(r, o) ==
    LET r1 == brotli_q(r, o)
    IN IF r1.f.br # "none" THEN [r1 EXCEPT !.f = [@ EXCEPT !.dat = "none"]] ELSE r1

\* Sdat2img(transferfile, dat, img)
conv_sdat2img(r, o) ==
    CASE o.sdat = "ok" -> [r EXCEPT !.f = [@ EXCEPT !.img = "raw"]]
      [] o.sdat = "noimg" -> r
      [] OTHER -> [r EXCEPT !.raised = TRUE]

\* f_get == 'sparse', hget == 'dat'
conv_dat_sparse(r, o) ==
    LET r1 == IF r.f.dat = "none" THEN r
              ELSE IF r.f.tl /\ r.f.dat # "empty"
              THEN LET r2 == conv_sdat2img(r, o)
                   IN IF r2.raised \/ r2.f.img = "none" THEN r2
                      ELSE [r2 EXCEPT !.f = [@ EXCEPT !.dat = "none", !.tl = FALSE,
                                                      !.patch = "none"]]
              ELSE [r EXCEPT !.msgs = @ \cup {"transferpath"}]
    IN IF r1.raised THEN r1 ELSE img2simg(r1, o)

\* f_get == 'raw', hget in ['dat', 'br', 'xz']: getsize raises when the
\* .new.dat is not there; the patch is removed only when it is empty, and
\* getsize of a missing patch raises inside the try.
conv_dat_raw(r, o) ==
    IF ~r.f.tl THEN [r EXCEPT !.msgs = @ \cup {"transferfile"}]
    ELSE IF r.f.dat = "none" THEN [r EXCEPT !.raised = TRUE]
    ELSE IF r.f.dat = "empty" THEN [r EXCEPT !.msgs = @ \cup {"transferfile"}]
    ELSE LET r2 == conv_sdat2img(r, o)
         IN IF r2.raised \/ r2.f.img = "none" THEN r2
            ELSE [r2 EXCEPT !.f = [@ EXCEPT !.dat = "none", !.tl = FALSE,
                                            !.patch = IF @ = "empty" THEN "none" ELSE @]]

\* The body of `for i in selection` for one item.
conversion(r, f_get, hget, o) ==
    CASE f_get = "sparse" /\ hget = "br" -> conv_brotli(r, o)
      [] f_get = "sparse" /\ hget = "dat" -> conv_dat_sparse(r, o)
      [] f_get = "raw" /\ hget = "br" -> conv_dat_raw(conv_brotli(r, o), o)
      [] f_get = "raw" /\ hget = "dat" -> conv_dat_raw(r, o)
      [] f_get = "sparse" /\ hget = "raw" ->
            IF r.f.img # "none" THEN img2simg(r, o) ELSE r
      [] f_get = "dat" /\ hget = "raw" -> datbr(img2simg(r, o), "dat", o)
      [] f_get = "dat" /\ hget = "sparse" -> datbr(r, "dat", o)
      [] f_get = "dat" /\ hget = "br" -> conv_brotli(r, o)
      [] f_get = "br" /\ hget = "raw" -> datbr(img2simg(r, o), "0", o)
      [] f_get = "br" /\ hget = "sparse" -> datbr(r, "0", o)
      [] f_get = "br" /\ hget = "dat" -> conv_dat_br(r, o)
      [] OTHER -> r

\* The files of an item that the list of the dialog offers for hget.
ConvFiles(hget) ==
    {[br |-> b, dat |-> d, tl |-> t, patch |-> p, img |-> i, tmp |-> "none"] :
        b \in IF hget = "br" THEN {"empty", "full"} ELSE {"none"},
        d \in IF hget = "dat" THEN {"empty", "full"} ELSE {"none"},
        t \in BOOLEAN, p \in {"none", "empty", "full"}, i \in {"none", "raw"}}

CvNew(hget, f) ==
    [pc |-> "new", hget |-> hget, f_get |-> "", f0 |-> f, f |-> f, msgs |-> {},
     raised |-> FALSE, sdat |-> "", enc_on |-> "", log |-> {}]

\* conversion() on a selection of one item.
Conversion(f_get) ==
    /\ cv.pc = "new"
    /\ \E o \in ConvOutcomes :
          cv' = [conversion(cv, f_get, cv.hget, o) EXCEPT !.pc = "done", !.f_get = f_get,
                                                         !.sdat = o.sdat]
    /\ UNCHANGED <<mainVars, gfs, rl, psup, dlg, procs, opVars>>

InitConv ==
    /\ MainIdle
    /\ cv \in UNION {{CvNew(h, f) : f \in ConvFiles(h)} : h \in {"dat", "br"}}
    /\ gfs = Idle /\ rl = Idle /\ psup = Idle /\ dlg = Idle /\ procs = Idle /\ OpsIdle

NextConv == \E f_get \in {"raw", "sparse"} : Conversion(f_get)

SpecConv == InitConv /\ [][NextConv]_vars

\* The files of an image item (hget raw or sparse), or of a .new.dat, that
\* the encoders are run on: a .new.dat, a .new.dat.br or a <name>.imgs of
\* an earlier run may be there.
EncFiles(hget) ==
    {[br |-> b, dat |-> d, tl |-> FALSE, patch |-> "none", img |-> i, tmp |-> t] :
        b \in {"none", "full"},
        d \in IF hget = "dat" THEN {"full"} ELSE {"none", "full"},
        i \in CASE hget = "raw" -> {"raw"} [] hget = "sparse" -> {"sparse"}
                [] OTHER -> {"none"},
        t \in IF hget = "raw" THEN {"none", "stale"} ELSE {"none"}}

InitEnc ==
    /\ MainIdle
    /\ cv \in UNION {{CvNew(h, f) : f \in EncFiles(h)} : h \in {"raw", "sparse", "dat"}}
    /\ gfs = Idle /\ rl = Idle /\ psup = Idle /\ dlg = Idle /\ procs = Idle /\ OpsIdle

NextEnc == \E f_get \in {"sparse", "dat", "br"} : Conversion(f_get)

SpecEnc == InitEnc /\ [][NextEnc]_vars

-----------------------------------------------------------------------------
(* pack_super: the lpmake command for the images of the working directory. *)
(* im maps the names of the <name>.img files to their byte lengths.  An    *)
(* element of the command (or the option with its argument) is a record:   *)
(* what it is (k) and the fields of its argument.                          *)

Arg(k, name, attr, size, grp, file) ==
    [k |-> k, name |-> name, attr |-> attr, size |-> size, grp |-> grp, file |-> file]

Word(k) == Arg(k, <<>>, "", 0, <<>>, <<>>)

\* the names of part_list taken as they are
strip_none(part) == part

\* if part.endswith('_b') or part.endswith('_a'): part = part[:-2]
strip_slot(part) ==
    IF endswith_a(part) \/ endswith_b(part) THEN SubSeq(part, 1, Len(part) - 1) ELSE part

\* lb_c: the canonical names of part_list, each once, in their order
RECURSIVE lb_c(_, _)
lb_c(part_list, acc) ==
    IF part_list = <<>> THEN acc
    ELSE LET part == strip_slot(Head(part_list))
         IN lb_c(Tail(part_list),
                 IF part \in Range(acc) THEN acc ELSE Append(acc, part))

\* <part>_a.img becomes <part>.img when that is missing
\* a rename step that leaves every file where it is
rename_none(im, parts, mv) == im

\* mv: os.rename succeeds; its exception is logged and the loop goes on
RECURSIVE rename_slot_a(_, _, _)
rename_slot_a(im, parts, mv) ==
    IF parts = <<>> THEN im
    ELSE LET part == Head(parts)
             a    == Append(part, "_a")
         IN rename_slot_a(IF part \notin DOMAIN im /\ a \in DOMAIN im /\ mv
                          THEN Put(Remove(im, a), part, im[a])
                          ELSE im,
                          Tail(parts), mv)

\* --partition <part>:<attrib>:<size>:<group> --image <part>=<work>/<part>.img
RECURSIVE parts_a_only(_, _, _, _)
parts_a_only(parts, im, attrib, group) ==
    IF parts = <<>> THEN <<>>
    ELSE <<Arg("partition", Head(parts), attrib, im[Head(parts)], group, <<>>),
           Arg("image", Head(parts), "", 0, <<>>, Head(parts))>>
         \o parts_a_only(Tail(parts), im, attrib, group)

\* --partition <part>_a:<attrib>:<size of <part>.img>:<group>_a
\* --image <part>_a=<work><part>.img
RECURSIVE parts_slot_a(_, _, _, _)
parts_slot_a(parts, im, attrib, group) ==
    IF parts = <<>> THEN <<>>
    ELSE <<Arg("partition", Append(Head(parts), "_a"), attrib, im[Head(parts)],
               Append(group, "_a"), <<>>),
           Arg("image", Append(Head(parts), "_a"), "", 0, <<>>, Head(parts))>>
         \o parts_slot_a(Tail(parts), im, attrib, group)

\* a _b entry that takes an empty <part>_b.img for a missing one
slot_b_nonempty(part, im, attrib, group) ==
    LET b == Append(part, "_b")
    IN IF b \notin DOMAIN im \/ im[b] = 0
       THEN <<Arg("partition", b, attrib, 0, Append(group, "_b"), <<>>)>>
       ELSE <<Arg("partition", b, attrib, im[b], Append(group, "_b"), <<>>),
              Arg("image", b, "", 0, <<>>, b)>>

\* the _b entry of part: size 0 and no image when <part>_b.img is missing
slot_b(part, im, attrib, group) ==
    LET b == Append(part, "_b")
    IN IF b \notin DOMAIN im
       THEN <<Arg("partition", b, attrib, 0, Append(group, "_b"), <<>>)>>
       ELSE <<Arg("partition", b, attrib, im[b], Append(group, "_b"), <<>>),
              Arg("image", b, "", 0, <<>>, b)>>

RECURSIVE parts_slot_b(_, _, _, _)
parts_slot_b(parts, im, attrib, group) ==
    IF parts = <<>> THEN <<>>
    ELSE slot_b(Head(parts), im, attrib, group)
         \o parts_slot_b(Tail(parts), im, attrib, group)

\* The command, for images that are all there.
lpmake_command(sparse, group_name, size, super_type, parts, attrib, bdn, im) ==
    <<Word("lpmake"), Arg("metadata-size", <<>>, "", 65536, <<>>, <<>>),
      Arg("super-name", bdn, "", 0, <<>>, <<>>)>>
    \o (IF super_type = 1
        THEN <<Arg("metadata-slots", <<>>, "", 2, <<>>, <<>>),
               Arg("device", bdn, "", size, <<>>, <<>>),
               Arg("group", <<>>, "", size, group_name, <<>>)>>
             \o parts_a_only(parts, im, attrib, group_name)
        ELSE <<Arg("metadata-slots", <<>>, "", 3, <<>>, <<>>),
               Arg("device", <<"super">>, "", size, <<>>, <<>>),
               Arg("group", <<>>, "", size, Append(group_name, "_a"), <<>>)>>
             \o parts_slot_a(parts, im, attrib, group_name)
             \o <<Arg("group", <<>>, "", size, Append(group_name, "_b"), <<>>)>>
             \o parts_slot_b(parts, im, attrib, group_name)
             \o (IF super_type = 2 THEN <<Word("virtual-ab")>> ELSE <<>>))
    \o (IF sparse THEN <<Word("sparse")>> ELSE <<>>)
    \o <<Arg("out", <<>>, "", 0, <<>>, <<"super">>)>>

\* The image files of a working directory: sys.img, sys_a.img, sys_b.img
\* (empty or not) and vnd.img, each there or not.
SuperWorlds ==
    {[n \in s |-> CASE n = <<"sys">> -> 4096
                    [] n = <<"sys", "_a">> -> 8192
                    [] n = <<"sys", "_b">> -> b
                    [] OTHER -> 16384] :
        s \in SUBSET {<<"sys">>, <<"sys", "_a">>, <<"sys", "_b">>, <<"vnd">>},
        b \in {0, 12288}}

PartLists ==
    {<<<<"sys">>>>, <<<<"sys", "_a">>, <<"sys", "_b">>>>, <<<<"sys", "_a">>, <<"vnd">>>>,
     <<<<"vnd">>, <<"sys", "_b">>, <<"sys">>>>}

TotalSizes == {1073741824}

PsNew(im) ==
    [pc |-> "new", im |-> im, im1 |-> im, part_list |-> <<>>, super_type |-> 0,
     size |-> 0, group_name |-> <<>>, sparse |-> FALSE, command |-> <<>>,
     raised |-> FALSE, ret |-> "", out |-> FALSE, warn |-> FALSE,
     super_img |-> FALSE, called |-> FALSE, exc |-> FALSE, rc |-> 0, del_ |-> 0,
     im0 |-> im, lb_c |-> <<>>, mv |-> TRUE, bdn |-> <<>>]

\* What call(command) comes to: lpmake exits with a status (2 stands also
\* for a tool that is not found), or reading its output raises; whether
\* the tool has written super.img; and, before it, whether the os.rename
\* of the slot images succeeds (mv).
ToolRuns ==
    {[raised |-> x, rc |-> c, wrote |-> w, mv |-> m] :
        x \in BOOLEAN, c \in {0, 1, 2}, w \in BOOLEAN, m \in BOOLEAN}

\* a report that trusts the exit status of lpmake alone
pack_report_rc(rc, there) == IF rc = 0 THEN "text59" ELSE "warn10"

\* What pack_super says after call(command) has returned rc; there:
\* super.img is in the output directory.
pack_report(rc, there) ==
    IF rc = 0
    THEN IF there THEN "text59" ELSE "warn10"
    ELSE "warn10"

\* pack_super(sparse, group_name, size, super_type, part_list, del_,
\* return_cmd, attrib, block_device_name) on the call record r; tool: how
\* the run of lpmake ends.  Returns the record after the call.
pack_super(r, sparse, group_name, size, super_type, part_list, del_, return_cmd, attrib, bdn, tool) ==
    LET name  == IF bdn = <<>> THEN <<"super">> ELSE bdn
        parts == lb_c(part_list, <<>>)
        im1   == rename_slot_a(r.im, parts, tool.mv)
        miss  == \E q \in Range(parts) : q \notin DOMAIN im1
        cmd   == lpmake_command(sparse, group_name, size, super_type, parts, attrib,
                                name, im1)
        r0    == [r EXCEPT !.pc = "done", !.part_list = part_list,
                           !.super_type = super_type, !.size = size,
                           !.group_name = group_name, !.sparse = sparse,
                           !.im = im1, !.im1 = im1, !.del_ = del_,
                           !.im0 = r.im, !.lb_c = parts, !.mv = tool.mv, !.bdn = bdn]
        there == r.super_img \/ tool.wrote
        r1    == [r0 EXCEPT !.command = cmd, !.ret = "None", !.called = TRUE,
                            !.super_img = there]
    IN IF miss THEN [r0 EXCEPT !.raised = TRUE, !.ret = "None"]
       ELSE IF return_cmd = 1 THEN [r0 EXCEPT !.command = cmd, !.ret = "command"]
       ELSE IF tool.raised THEN [r1 EXCEPT !.exc = TRUE]
       ELSE IF pack_report(tool.rc, there) = "warn10"
            THEN [r1 EXCEPT !.rc = tool.rc, !.warn = TRUE]
       ELSE [r1 EXCEPT !.out = TRUE,
                       !.im = IF del_ = 1
                              THEN [n \in DOMAIN im1 \ Range(parts) |-> im1[n]]
                              ELSE im1]

PackSuper(sparse, group_name, size, super_type, part_list, del_, return_cmd, attrib, bdn, tool) ==
    /\ psup.pc = "new"
    /\ psup' = pack_super(psup, sparse, group_name, size, super_type, part_list, del_,
                          return_cmd, attrib, bdn, tool)
    /\ UNCHANGED <<mainVars, gfs, rl, cv, dlg, procs, opVars>>

InitSuper ==
    /\ MainIdle
    /\ psup \in {[PsNew(im) EXCEPT !.super_img = old] :
                   im \in SuperWorlds, old \in BOOLEAN}
    /\ gfs = Idle /\ rl = Idle /\ cv = Idle /\ dlg = Idle /\ procs = Idle /\ OpsIdle

NextSuper ==
    \E sparse \in BOOLEAN, size \in TotalSizes, super_type \in {1, 2, 3},
       part_list \in PartLists, del_ \in {0, 1}, return_cmd \in {0, 1},
       bdn \in {<<>>, <<"qti">>}, tool \in ToolRuns :
        PackSuper(sparse, <<"main">>, size, super_type, part_list, del_, return_cmd,
                  "readonly", bdn, tool)

SpecSuper == InitSuper /\ [][NextSuper]_vars

-----------------------------------------------------------------------------
(* PackSuper: the dialog that asks for the options of a super image, its   *)
(* size check verify_size and its handler start_.  The image files of the  *)
(* working directory are those of psup.im; their lengths and the sizes of  *)
(* this section are counted in MiB.                                        *)

\* 1024 ** 3 bytes
GiB == 1024

\* (1024 ** 3) * (i - 0.25)
stepped(i) == ((4 * i - 1) * GiB) \div 4

\* The loop "for i in range(20)" of verify_size from the step i on, the step
\* 0 being skipped; size is the sum of the selected images.  Returns size
\* as the loop leaves it.
RECURSIVE verify_loop(_, _, _)
verify_loop(i, size, diff_size) ==
    IF i > 19 THEN size
    ELSE LET t == stepped(i) - size
         IN IF t < 0 THEN verify_loop(i + 1, size, diff_size)
            ELSE IF t < diff_size THEN verify_loop(i + 1, size, t)
            ELSE stepped(i)

\* a size check that lets every selection pass
verify_size_pass(size, super_size) == <<super_size, TRUE>>

\* verify_size() for a selection of the byte sum size:
\* <<super_size after the call, result>>
verify_size(size, super_size) ==
    IF size > super_size THEN <<verify_loop(1, size, size), FALSE>>
    ELSE <<super_size, TRUE>>

\* sum([os.path.getsize(f"{self.work}/{i}.img") for i in self.tl.selected])
RECURSIVE selected_sum(_, _)
selected_sum(im, selected) ==
    IF selected = <<>> THEN 0
    ELSE im[Head(selected)] + selected_sum(im, Tail(selected))

DlgImages == [n \in {<<"sys">>, <<"vnd">>, <<"odm">>} |->
                 CASE n = <<"sys">> -> 150
                   [] n = <<"vnd">> -> 550
                   [] OTHER -> 19000]

\* The selections of the list box.
Selections ==
    {<<>>, <<<<"sys">>>>, <<<<"sys">>, <<"vnd">>>>, <<<<"odm">>>>,
     <<<<"odm">>, <<"vnd">>>>, <<<<"sys">>, <<"vnd">>, <<"odm">>>>}

\* What the size entry may hold.
EntrySizes == {100, 1024, 20480}

\* The dialog as __init__ leaves it; last: what the latest start_ has seen
\* and done.
DlgNew(size, selected) ==
    [pc |-> "open", super_size |-> size, invalid |-> FALSE, selected |-> selected,
     asked |-> FALSE, warned |-> FALSE,
     last |-> [ran |-> FALSE, req |-> 0, sum |-> 0, adj |-> 0, ret |-> ""]]

\* The user picks the images of the list box.
DlgSelect(selected) ==
    /\ dlg.pc = "open"
    /\ dlg' = [dlg EXCEPT !.selected = selected]
    /\ UNCHANGED <<mainVars, gfs, rl, cv, psup, procs, opVars>>

\* The user types into the size entry; invalid: what is typed is no number.
DlgSize(size, invalid) ==
    /\ dlg.pc = "open"
    /\ dlg' = [dlg EXCEPT !.super_size = size, !.invalid = invalid]
    /\ UNCHANGED <<mainVars, gfs, rl, cv, psup, procs, opVars>>

\* start_(): the Pack button.
start_(sparse, super_type, sc, tool) ==
    /\ dlg.pc = "open"
    /\ LET req == IF dlg.invalid THEN 0 ELSE dlg.super_size
           sum == selected_sum(psup.im, dlg.selected)
           v   == verify_size(sum, req)
           e   == exist(proj)
           d0  == [dlg EXCEPT !.invalid = FALSE, !.super_size = v[1],
                              !.last = [ran |-> TRUE, req |-> req, sum |-> sum,
                                        adj |-> v[1], ret |-> "False"]]
       IN IF ~v[2]
          THEN /\ dlg' = [d0 EXCEPT !.asked = TRUE]
               /\ UNCHANGED <<proj, psup>>
          ELSE IF ~e[2]
          THEN /\ dlg' = [d0 EXCEPT !.pc = "closed", !.warned = TRUE]
               /\ proj' = e[1]
               /\ UNCHANGED psup
          ELSE /\ dlg' = [d0 EXCEPT !.pc = "closed", !.last.ret = "None"]
               /\ proj' = e[1]
               /\ psup' = pack_super(psup, sparse, <<"main">>, v[1], super_type,
                                     dlg.selected, sc, 0, "readonly", <<"super">>, tool)
    /\ UNCHANGED <<fs, reg, call, gfs, rl, cv, procs, opVars>>

\* The projects a dialog can be opened on: __init__ has called
\* current_work_path().
DlgProjects == {p \in ProjStates : current_work_path(p) = p /\ (p.name => p.dir)}

InitDlg ==
    /\ proj \in DlgProjects
    /\ fs = NoWorld
    /\ reg = <<>>
    /\ call = [c \in Calls |-> IdleCall]
    /\ psup = PsNew(DlgImages)
    /\ dlg \in {DlgNew(size, <<>>) : size \in EntrySizes}
    /\ gfs = Idle /\ rl = Idle /\ cv = Idle /\ procs = Idle /\ OpsIdle

NextDlg ==
    \/ \E selected \in Selections : DlgSelect(selected)
    \/ \E size \in EntrySizes, invalid \in BOOLEAN : DlgSize(size, invalid)
    \/ \E sc \in {0, 1}, tool \in ToolRuns : start_(FALSE, 1, sc, tool)

SpecDlg == InitDlg /\ [][NextDlg]_vars

-----------------------------------------------------------------------------
(* call(exe): the threads that run an external tool, and the list          *)
(* states.open_pids they share.  procs holds                               *)
(*   th         for each thread its place in call() and the pid it holds   *)
(*   open_pids  the list                                                   *)
(*   live       the pids of the children that run                          *)
(*   eof        the pids of the children whose output has ended            *)
(*   npid       how many children have been spawned                        *)
(* list.append and list.remove are single steps of the interpreter.        *)

Threads == {1, 2}

\* How many children one behaviour spawns.
MaxSpawn == 3

IdleThread == [pc |-> "idle", pid |-> 0, ret |-> ""]

\* list.remove(x): the first x of the list is taken out
RECURSIVE list_remove(_, _)
list_remove(l, x) ==
    IF l = <<>> THEN <<>>
    ELSE IF Head(l) = x THEN Tail(l)
    ELSE <<Head(l)>> \o list_remove(Tail(l), x)

\* subprocess.Popen(cmd, ...): the child runs, or the tool is not found and
\* call returns 2.
Popen(t, found) ==
    /\ procs.th[t].pc = "idle"
    /\ procs.npid < MaxSpawn
    /\ procs' =
         IF found
         THEN [procs EXCEPT !.th[t] = [pc |-> "spawned", pid |-> procs.npid + 1,
                                       ret |-> ""],
                            !.live = @ \cup {procs.npid + 1},
                            !.npid = @ + 1]
         ELSE [procs EXCEPT !.th[t] = [pc |-> "returned", pid |-> 0, ret |-> "2"]]
    /\ UNCHANGED <<mainVars, gfs, rl, cv, psup, dlg, opVars>>

\* states.open_pids.append(pid)
AppendPid(t) ==
    /\ procs.th[t].pc = "spawned"
    /\ procs' = [procs EXCEPT !.th[t].pc = "reading",
                              !.open_pids = Append(@, procs.th[t].pid)]
    /\ UNCHANGED <<mainVars, gfs, rl, cv, psup, dlg, opVars>>

\* A line of the output that decodes neither as utf-8 nor as gbk: the
\* exception is none of those call() catches and leaves it.
DecodeRaises(t) ==
    /\ procs.th[t].pc = "reading"
    /\ procs.th[t].pid \notin procs.eof
    /\ procs' = [procs EXCEPT !.th[t] = [@ EXCEPT !.pc = "returned", !.ret = "raise"]]
    /\ UNCHANGED <<mainVars, gfs, rl, cv, psup, dlg, opVars>>

\* The end of the output is read: states.open_pids.remove(pid)
RemovePid(t) ==
    /\ procs.th[t].pc = "reading"
    /\ procs.th[t].pid \in procs.eof
    /\ procs' = [procs EXCEPT !.th[t].pc = "waiting",
                              !.open_pids = list_remove(@, procs.th[t].pid)]
    /\ UNCHANGED <<mainVars, gfs, rl, cv, psup, dlg, opVars>>

\* ret.wait(); return ret.returncode
Wait(t) ==
    /\ procs.th[t].pc = "waiting"
    /\ procs.th[t].pid \notin procs.live
    /\ procs' = [procs EXCEPT !.th[t] = [@ EXCEPT !.pc = "returned", !.ret = "code"]]
    /\ UNCHANGED <<mainVars, gfs, rl, cv, psup, dlg, opVars>>

\* The thread goes on to its next call.
NextCall(t) ==
    /\ procs.th[t].pc = "returned"
    /\ procs' = [procs EXCEPT !.th[t] = IdleThread]
    /\ UNCHANGED <<mainVars, gfs, rl, cv, psup, dlg, opVars>>

\* A child closes its output and runs on.
ChildCloses(p) ==
    /\ p \in procs.live \ procs.eof
    /\ procs' = [procs EXCEPT !.eof = @ \cup {p}]
    /\ UNCHANGED <<mainVars, gfs, rl, cv, psup, dlg, opVars>>

\* A child exits; its output ends with it.
ChildExits(p) ==
    /\ p \in procs.live
    /\ procs' = [procs EXCEPT !.live = @ \ {p}, !.eof = @ \cup {p}]
    /\ UNCHANGED <<mainVars, gfs, rl, cv, psup, dlg, opVars>>

\* Updater.update_process: every child of the list is terminated.
update_process ==
    /\ procs.open_pids # <<>>
    /\ procs' = [procs EXCEPT !.live = @ \ Range(procs.open_pids),
                              !.eof = @ \cup (procs.live \cap Range(procs.open_pids))]
    /\ UNCHANGED <<mainVars, gfs, rl, cv, psup, dlg, opVars>>

InitProcs ==
    /\ MainIdle
    /\ procs = [th |-> [t \in Threads |-> IdleThread], open_pids |-> <<>>,
                live |-> {}, eof |-> {}, npid |-> 0]
    /\ gfs = Idle /\ rl = Idle /\ cv = Idle /\ psup = Idle /\ dlg = Idle /\ OpsIdle

NextProcs ==
    \/ \E t \in Threads :
          \/ \E found \in BOOLEAN : Popen(t, found)
          \/ AppendPid(t)
          \/ DecodeRaises(t)
          \/ RemovePid(t)
          \/ Wait(t)
          \/ NextCall(t)
    \/ \E p \in 1..MaxSpawn : ChildCloses(p) \/ ChildExits(p)
    \/ update_process

SpecProcs == InitProcs /\ [][NextProcs]_vars

-----------------------------------------------------------------------------
(* unpack, the numbered segments <i>.new.dat.<n> of one partition.  sg holds *)
(* whether <i>.new.dat is there, its content, and the content of each       *)
(* segment that is on disk, by its index.  The partitions of the batches    *)
(* above come without numbered segments.                                    *)

\* for n in range(100)
SegRange == 0..99

\* the loop over range(100) from n on: each segment that is there is
\* appended to the open file and removed.  The indexes without a segment
\* are passed over in one step.
RECURSIVE append_segments(_, _)
append_segments(f, n) ==
    LET here == {k \in DOMAIN f.segs : k \in SegRange /\ k >= n}
    IN IF here = {} THEN f
       ELSE LET k == CHOOSE x \in here : \A y \in here : x <= y
            IN append_segments([f EXCEPT !.dat = @ \o f.segs[k],
                                         !.segs = Remove(@, k)],
                               k + 1)

\* if os.access(f"{work}/{i}.new.dat.1"): with open(f"{work}/{i}.new.dat", 'ab')
reassemble(f) ==
    IF 1 \in DOMAIN f.segs
    THEN append_segments([f EXCEPT !.there = TRUE], 0)
    ELSE f

SegIndexes == {0, 1, 2, 3, 100}

\* A missing file has no content.
SegNew(there, dat, ix) ==
    [pc |-> "new", there |-> there, dat |-> dat, segs |-> [n \in ix |-> <<n>>],
     there0 |-> there, segs0 |-> ix]

Reassemble ==
    /\ sg # Idle /\ sg.pc = "new"
    /\ sg' = [reassemble(sg) EXCEPT !.pc = "done"]
    /\ UNCHANGED <<mainVars, gfs, rl, cv, psup, dlg, procs, mk, rd, pm, bt>>

InitSeg ==
    /\ MainIdle
    /\ gfs = Idle /\ rl = Idle /\ cv = Idle /\ psup = Idle /\ dlg = Idle /\ procs = Idle
    /\ mk = Idle /\ rd = Idle /\ pm = Idle /\ bt = Idle
    /\ \E there \in BOOLEAN, dat \in {<<>>, <<-1>>}, ix \in SUBSET SegIndexes :
          /\ (~there => dat = <<>>)
          /\ sg = SegNew(there, dat, ix)

NextSeg == Reassemble

SpecSeg == InitSeg /\ [][NextSeg]_vars

-----------------------------------------------------------------------------
(* unpack of loose partition images that come sparse or raw, the logo       *)
(* partition among them.                                                    *)

LogoName == <<"logo">>

LooseNames == <<LogoName, <<"sys">>>>

LooseImages ==
    {Sparse("logo"), Raw("logo"), Sparse("erofs"), Sparse("ext"), Sparse("boot"), Raw("boot")}

InitLoose ==
    /\ proj \in {p \in ProjStates : p.name /\ p.dir}
    /\ fs \in {[NoWorld EXCEPT !.img = im] : im \in [Range(LooseNames) -> LooseImages]}
    /\ reg = <<>>
    /\ call = [c \in Calls |-> IdleCall]
    /\ UnitsIdle

NextLoose ==
    \E c \in Calls :
        \/ (call[c].n = 0 /\ UnpackBegin(c, LooseNames, ""))
        \/ UnpackStep(c)
        \/ UnpackEnd(c)

SpecLoose == InitLoose /\ [][NextLoose]_vars

-----------------------------------------------------------------------------
(* mke2fs(name, work, sparse, work_output, size, UTC): the two-step ext4     *)
(* builder.  mk holds the files <name>_new.img and <name>.img of the output *)
(* directory and <name>_new.img of the working directory; in the single     *)
(* layout both paths name one directory, kept in out.  o holds what the     *)
(* tools and the system calls do:                                           *)
(*   o.fmt    the exit code of mke2fs                                       *)
(*   o.wrote  a failing mke2fs has left a part of its output                *)
(*   o.rmd    rmdir gets rid of its path (rmtree raises for a file, the     *)
(*            fallback busybox rm -rf does the work, if it is there)        *)
(*   o.pop    the exit code of e2fsdroid                                    *)
(*   o.simg   img2simg writes its output                                    *)
(*   o.rm     os.remove succeeds (its exception is logged otherwise)        *)

MkOutcomes ==
    [fmt : {0, 1}, wrote : BOOLEAN, rmd : BOOLEAN, pop : {0, 1}, simg : BOOLEAN,
     rm : BOOLEAN]

\* rmdir(f'{work}/{name}_new.img') after a failed e2fsdroid: work is the
\* working directory, which is the output directory in the single layout only.
rmdir_work(r, o) ==
    IF ~o.rmd THEN r
    ELSE IF r.struct = "single" THEN [r EXCEPT !.out.new = "none"]
    ELSE [r EXCEPT !.work.new = "none"]

\* rmdir(f'{work_output}/{name}_new.img') after a failed mke2fs
rmdir_new(r, o) ==
    IF o.rmd THEN [r EXCEPT !.out.new = "none"] ELSE r

mke2fs(r, o) ==
    IF o.fmt # 0
    THEN [rmdir_new([r EXCEPT !.out.new = IF o.wrote THEN "half" ELSE @], o)
             EXCEPT !.ret = 1, !.at = "mke2fs", !.rmd = o.rmd]
    ELSE IF o.pop # 0
    THEN [rmdir_work([r EXCEPT !.out.new = "half"], o)
             EXCEPT !.ret = 1, !.at = "e2fsdroid", !.rmd = o.rmd]
    ELSE IF r.sparse
    THEN [r EXCEPT !.out.img = IF o.simg THEN "sparse" ELSE @,
                   !.out.new = IF o.rm THEN "none" ELSE "full",
                   !.ret = 0, !.at = "end"]
    ELSE [r EXCEPT !.out.img = "raw", !.out.new = "none", !.ret = 0, !.at = "end"]

MkNew(struct, sparse, img, new, wnew) ==
    [pc |-> "new", struct |-> struct, sparse |-> sparse,
     out |-> [new |-> new, img |-> img], work |-> [new |-> wnew],
     img0 |-> img, ret |-> 0, at |-> "", rmd |-> TRUE]

Mke2fs(o) ==
    /\ mk # Idle /\ mk.pc = "new"
    /\ mk' = [mke2fs(mk, o) EXCEPT !.pc = "done"]
    /\ UNCHANGED <<mainVars, gfs, rl, cv, psup, dlg, procs, sg, rd, pm, bt>>

InitMk ==
    /\ MainIdle
    /\ gfs = Idle /\ rl = Idle /\ cv = Idle /\ psup = Idle /\ dlg = Idle /\ procs = Idle
    /\ sg = Idle /\ rd = Idle /\ pm = Idle /\ bt = Idle
    /\ \E struct \in {"single", "split"}, sparse \in BOOLEAN,
          img \in {"none", "old"}, new \in {"none", "stale"}, wnew \in {"none", "stale"} :
          /\ (struct = "single" => wnew = "none")
          /\ mk = MkNew(struct, sparse, img, new, wnew)

NextMk == \E o \in MkOutcomes : Mke2fs(o)

SpecMk == InitMk /\ [][NextMk]_vars

-----------------------------------------------------------------------------
(* A batch over partitions that come as transfer files, and the repack      *)
(* that follows it.                                                         *)

VerNames == <<<<"sys">>, <<"vnd">>>>

VerForms == {"br", "zst", "ext", "erofs"}

InitVer ==
    /\ proj \in {p \in ProjStates : p.name /\ p.dir}
    /\ fs \in {World(fm) : fm \in [Range(VerNames) -> VerForms]}
    /\ reg = <<>>
    /\ call = [c \in Calls |-> IdleCall]
    /\ UnitsIdle

NextVer ==
    \E c \in Calls :
        \/ (call[c].n = 0 /\ UnpackBegin(c, VerNames, ""))
        \/ UnpackStep(c)
        \/ UnpackEnd(c)
        \/ CallReturn(c)
        \/ \E lg \in {<<<<"sys">>>>, <<<<"vnd">>>>}, del \in BOOLEAN :
              (call[c].n = 1 /\ PackRom(c, lg, del))

SpecVer == InitVer /\ [][NextVer]_vars

-----------------------------------------------------------------------------
(* PackSuper.read_list: the dialog's fields rebuilt from config/parts_info  *)
(* and from dynamic_partitions_op_list.  Names are sequences of characters  *)
(* here, so that fir[:-2] and i.endswith('_a') are computed on characters.  *)
(* What utils.dynamic_list_reader returns is an input: the groups of the    *)
(* list in the order of the file, each with its size and its partitions.    *)

\* s[:-2]
cut2(s) == IF Len(s) >= 2 THEN SubSeq(s, 1, Len(s) - 2) ELSE <<>>

\* s.endswith('_' + x)
ends_slot(s, x) == Len(s) >= 2 /\ s[Len(s) - 1] = "_" /\ s[Len(s)] = x

\* for i in self.selected: ... selected.append(name), from the k-th element
\* on; selected is the list the loop runs over.
RECURSIVE add_unsuffixed(_, _)
add_unsuffixed(selected, k) ==
    IF k > Len(selected) THEN selected
    ELSE LET i == selected[k]
             name == IF ends_slot(i, "a") \/ ends_slot(i, "b") THEN cut2(i) ELSE i
         IN add_unsuffixed(IF name \notin Range(selected) THEN Append(selected, name)
                           ELSE selected,
                           k + 1)

\* for i in data.get('partition_table', []): names once, in their order
RECURSIVE once_each(_, _)
once_each(names, acc) ==
    IF names = <<>> THEN acc
    ELSE once_each(Tail(names),
                   IF Head(names) \in Range(acc) THEN acc ELSE Append(acc, Head(names)))

\* for i in data.get('block_devices', []): the last one decides
RECURSIVE read_devices(_, _)
read_devices(r, devs) ==
    IF devs = <<>> THEN r
    ELSE read_devices([r EXCEPT !.block_device_name = Head(devs).name,
                                !.super_size = Head(devs).size],
                      Tail(devs))

\* for i in data.get('group_table', []): the last name that is not 'default'
RECURSIVE read_groups(_, _)
read_groups(r, groups) ==
    IF groups = <<>> THEN r
    ELSE read_groups(IF Head(groups) # <<"d">> THEN [r EXCEPT !.group_name = Head(groups)]
                     ELSE r,
                     Tail(groups))

\* the first half of read_list: config/parts_info
read_parts_info(r, info) ==
    IF ~info.there \/ ~info.ok THEN r
    ELSE [read_groups(read_devices(r, info.block_devices), info.group_table)
             EXCEPT !.selected = once_each(info.partition_table, <<>>)]

\* the second half of read_list: dynamic_partitions_op_list
read_op_list(r, lst) ==
    IF ~lst.there \/ lst.raises THEN r
    ELSE LET data == lst.data
         IN IF Len(data) > 1
            THEN IF Len(data) # 2 THEN [r EXCEPT !.err = "ValueError"]
                 ELSE LET fir == data[1]
                          sec == data[2]
                      IN IF cut2(fir.name) = cut2(sec.name)
                         THEN [r EXCEPT !.group_name = cut2(fir.name),
                                        !.super_type = 2,
                                        !.super_size = fir.size,
                                        !.selected = add_unsuffixed(fir.parts, 1)]
                         ELSE r
            ELSE IF Len(data) # 1 THEN [r EXCEPT !.err = "ValueError"]
            ELSE [r EXCEPT !.group_name = data[1].name,
                           !.super_size = data[1].size,
                           !.selected = data[1].parts,
                           !.super_type = 1]

read_list(r, info, lst) == read_op_list(read_parts_info(r, info), lst)

\* The group names of the lists: g_a, g_b, h_a, gxy, m.
GroupNames ==
    {<<"g", "_", "a">>, <<"g", "_", "b">>, <<"h", "_", "a">>, <<"g", "x", "y">>, <<"m">>}

\* The group of each name, as the list declares it.
Group(n) ==
    CASE n = <<"g", "_", "a">> ->
            [name |-> n, size |-> 1000, parts |-> <<<<"s", "_", "a">>, <<"v">>>>]
      [] n = <<"g", "_", "b">> ->
            [name |-> n, size |-> 2000, parts |-> <<<<"s", "_", "b">>, <<"v">>>>]
      [] n = <<"h", "_", "a">> ->
            [name |-> n, size |-> 3000, parts |-> <<<<"p", "_", "a", "_", "a">>>>]
      [] n = <<"g", "x", "y">> ->
            [name |-> n, size |-> 4000, parts |-> <<>>]
      [] OTHER ->
            [name |-> n, size |-> 5000, parts |-> <<<<"s">>, <<"v">>>>]

\* The lists of up to three groups, no group twice.
GroupLists ==
    {<<>>}
    \cup {<<Group(a)>> : a \in GroupNames}
    \cup {<<Group(p[1]), Group(p[2])>> :
             p \in {q \in GroupNames \X GroupNames : q[1] # q[2]}}
    \cup {<<Group(p[1]), Group(p[2]), Group(p[3])>> :
             p \in {q \in {<<"g", "_", "a">>, <<"m">>} \X GroupNames \X GroupNames :
                       q[1] # q[2] /\ q[1] # q[3] /\ q[2] # q[3]}}

OpLists ==
    {[there |-> FALSE, raises |-> FALSE, data |-> <<>>],
     [there |-> TRUE, raises |-> TRUE, data |-> <<>>]}
    \cup {[there |-> TRUE, raises |-> FALSE, data |-> d] : d \in GroupLists}

PartsInfos ==
    {[there |-> FALSE, ok |-> FALSE, block_devices |-> <<>>, group_table |-> <<>>,
      partition_table |-> <<>>],
     [there |-> TRUE, ok |-> TRUE,
      block_devices |-> <<[name |-> <<"q">>, size |-> 7000]>>,
      group_table |-> <<<<"d">>, <<"k">>>>,
      partition_table |-> <<<<"s">>, <<"v">>, <<"s">>>>]}

\* PackSuper.__init__: the fields before read_list (the size in bytes of the
\* default is of no account here and is kept as 0).
RdNew(info, lst) ==
    [pc |-> "new", info |-> info, lst |-> lst,
     block_device_name |-> <<"s", "u", "p", "e", "r">>, super_size |-> 0,
     group_name |-> <<>>, super_type |-> 1, selected |-> <<>>, err |-> ""]

ReadList ==
    /\ rd # Idle /\ rd.pc = "new"
    /\ rd' = [read_list(rd, rd.info, rd.lst) EXCEPT !.pc = "done"]
    /\ UNCHANGED <<mainVars, gfs, rl, cv, psup, dlg, procs, sg, mk, pm, bt>>

InitRd ==
    /\ MainIdle
    /\ gfs = Idle /\ rl = Idle /\ cv = Idle /\ psup = Idle /\ dlg = Idle /\ procs = Idle
    /\ sg = Idle /\ mk = Idle /\ pm = Idle /\ bt = Idle
    /\ \E info \in PartsInfos, lst \in OpLists : rd = RdNew(info, lst)

NextRd == ReadList

SpecRd == InitRd /\ [][NextRd]_vars

-----------------------------------------------------------------------------
(* ProjectMenuUtils.set_project over several projects.  pm holds the value  *)
(* of current_project_name ("" for none), the names that have a project     *)
(* directory under settings.path, and what the last call was given and did. *)

ProjectNames == {"A", "B", "C"}

\* project_manger.exist(name) with a name: the name is only tested against
\* None, the path tested is that of the current project.
exist_name(r, name) ==
    IF r.current = "" THEN FALSE ELSE r.current \in r.dirs

set_project(r, name_to_set) ==
    IF ~exist_name(r, name_to_set)
    THEN [r EXCEPT !.pc = "done", !.arg = name_to_set, !.prev = r.current, !.set = FALSE]
    ELSE [r EXCEPT !.pc = "done", !.arg = name_to_set, !.prev = r.current, !.set = TRUE,
                   !.current = name_to_set]

SetProject(name_to_set) ==
    /\ pm # Idle
    /\ pm' = set_project(pm, name_to_set)
    /\ UNCHANGED <<mainVars, gfs, rl, cv, psup, dlg, procs, sg, mk, rd, bt>>

InitPm ==
    /\ MainIdle
    /\ gfs = Idle /\ rl = Idle /\ cv = Idle /\ psup = Idle /\ dlg = Idle /\ procs = Idle
    /\ sg = Idle /\ mk = Idle /\ rd = Idle /\ bt = Idle
    /\ \E current \in ProjectNames \cup {""}, dirs \in SUBSET ProjectNames :
          pm = [pc |-> "new", current |-> current, dirs |-> dirs, arg |-> "",
                prev |-> current, set |-> FALSE]

NextPm == \E name_to_set \in ProjectNames : SetProject(name_to_set)

SpecPm == InitPm /\ [][NextPm]_vars

-----------------------------------------------------------------------------
(* unpack_boot and dboot, and the working directory of the process.  bt     *)
(* holds cwd, the directory os.getcwd() would answer: "prog" is cwd_path    *)
(* (utils.prog_path), "boot" the directory <work>/<name> of the boot image, *)
(* "else" any other directory the process was started in; and dir, whether  *)
(* <work>/<name> exists.  o holds what the call meets:                      *)
(*   o.found     the boot image (or, for dboot, the source directory) is    *)
(*               there                                                      *)
(*   o.tool      the exit code of magiskboot unpack / repack                *)
(*   o.ramdisk   there is a ramdisk (ramdisk.cpio, or the directory ramdisk)*)
(*   o.comp      the compression the classifier answers, or the file comp   *)
(*   o.codec     the exit code of magiskboot decompress / compress          *)
(*   o.cpio      cpio_extract / cpio_repack returns (it raises otherwise)   *)

BootOutcomes ==
    [found : BOOLEAN, tool : {0, 1}, ramdisk : BOOLEAN, comp : {"unknown", "gzip"},
     codec : {0, 1}, cpio : BOOLEAN]

\* os.chdir(d)
chdir(r, d) == [r EXCEPT !.cwd = d]

\* unpack_boot(name): rmdir has no return statement, so its result is never
\* 0 and an existing directory ends the call once it has been removed.
unpack_boot_cwd(r, o) ==
    IF ~o.found THEN [r EXCEPT !.at = "warn3"]
    ELSE IF r.dir THEN [r EXCEPT !.dir = FALSE, !.at = "text69"]
    ELSE LET r1 == chdir([r EXCEPT !.dir = TRUE], "boot")
         IN IF o.tool # 0
            THEN [chdir(r1, "prog") EXCEPT !.dir = FALSE, !.at = "unpack"]
            ELSE IF ~o.ramdisk THEN [chdir(r1, "prog") EXCEPT !.at = "end"]
            ELSE IF o.comp # "unknown" /\ o.codec # 0 THEN [r1 EXCEPT !.at = "decompress"]
            ELSE IF ~o.cpio THEN [r1 EXCEPT !.at = "raise"]
            ELSE [chdir(r1, "prog") EXCEPT !.at = "end"]

\* dboot(name)
dboot(r, o) ==
    IF ~o.found \/ ~r.dir THEN [r EXCEPT !.at = "cannot"]
    ELSE IF o.ramdisk /\ ~o.cpio THEN [r EXCEPT !.at = "raise"]
    ELSE LET r1 == chdir(r, "boot")
         IN IF o.tool # 0 THEN [r1 EXCEPT !.at = "repack"]
            ELSE [chdir(r1, "prog") EXCEPT !.dir = FALSE, !.at = "end"]

UnpackBoot(o) ==
    /\ bt # Idle /\ bt.pc = "new"
    /\ bt' = [unpack_boot_cwd(bt, o) EXCEPT !.pc = "done", !.op = "unpack_boot", !.o = o]
    /\ UNCHANGED <<mainVars, gfs, rl, cv, psup, dlg, procs, sg, mk, rd, pm>>

Dboot(o) ==
    /\ bt # Idle /\ bt.pc = "new"
    /\ bt' = [dboot(bt, o) EXCEPT !.pc = "done", !.op = "dboot", !.o = o]
    /\ UNCHANGED <<mainVars, gfs, rl, cv, psup, dlg, procs, sg, mk, rd, pm>>

InitBt ==
    /\ MainIdle
    /\ gfs = Idle /\ rl = Idle /\ cv = Idle /\ psup = Idle /\ dlg = Idle /\ procs = Idle
    /\ sg = Idle /\ mk = Idle /\ rd = Idle /\ pm = Idle
    /\ \E cwd \in {"prog", "else"}, dir \in BOOLEAN :
          bt = [pc |-> "new", op |-> "", cwd |-> cwd, cwd0 |-> cwd, dir |-> dir,
                at |-> "", o |-> CHOOSE o \in BootOutcomes : TRUE]

NextBt == \E o \in BootOutcomes : UnpackBoot(o) \/ Dboot(o)

SpecBt == InitBt /\ [][NextBt]_vars

-----------------------------------------------------------------------------
(* Claims *)

\* C1: in a loose-partition batch, a failure while one partition is processed
\* never stops the batch: once the call is over, every selected partition has
\* been processed, the call has returned True, and every other partition for
\* which a record was made has that record in the persisted registry.
C1_BatchResilient ==
    \A c \in Calls :
        (call[c].form = "" /\ call[c].pc = "done" /\ call[c].ret # "False"
            /\ call[c].failed # {})
        => /\ Range(call[c].chose) \subseteq call[c].seen
           /\ call[c].ret = "True"
           /\ (call[c].recd \ call[c].failed) \subseteq DOMAIN reg

\* C2: an unpack call that starts with no current project, or with a current
\* project whose working path does not exist, returns False and changes
\* nothing: no directory is created, no file is touched, the registry is not
\* written.
C2_NoSideEffect ==
    [][\A c \in Calls :
          (call[c].pc = "idle" /\ call'[c].pc # "idle" /\ call'[c].form = ""
              /\ (~proj.name \/ ~WorkPathExists(proj)))
          => (call'[c].ret = "False" /\ proj' = proj /\ fs' = fs /\ reg' = reg)]_vars

\* The single layout alone: there the precondition check has no side effect.
C2_SingleLayout ==
    [][\A c \in Calls :
          (call[c].pc = "idle" /\ call'[c].pc # "idle" /\ call'[c].form = ""
              /\ proj.struct = "single"
              /\ (~proj.name \/ ~WorkPathExists(proj)))
          => (call'[c].ret = "False" /\ proj' = proj /\ fs' = fs /\ reg' = reg)]_vars

HasImg(n) == n \in DOMAIN fs.img \/ n \in DOMAIN fs.oimg

C4_SuperInfoIff ==
    \A c \in Calls :
        call[c].pc \in {"idle", "done"}
        => ((SuperInfoKey \in DOMAIN reg) <=> call[c].sup)

\* <name> of <name>_a
Stem(f) == SubSeq(f, 1, Len(f) - 1)

\* The working directory im1 is the normalisation of im0, the directory as
\* lpunpack left it.  A counterpart counts as existing when it is in im0;
\* a renaming is required only when no _b file is there at all and
\* forbidden only when a _b file that the normalisation keeps is there.
ABNormalized(im0, im1) ==
    /\ \A f \in DOMAIN im0 :
          endswith_a(f) =>
            LET ren == f \notin DOMAIN im1 /\ Stem(f) \in DOMAIN im1
                b   == Append(Stem(f), "_b")
            IN /\ ren => (Stem(f) \notin DOMAIN im0 /\ ~(b \in DOMAIN im0 /\ ~im0[b].z))
               /\ (Stem(f) \notin DOMAIN im0 /\ b \notin DOMAIN im0) => ren
    /\ \A f \in DOMAIN im1 : endswith_b(f) => ~im1[f].z
    /\ \A f \in DOMAIN im1 :
          f \in DOMAIN im0 \/ \E g \in DOMAIN im0 : endswith_a(g) /\ f = Stem(g)

\* C5: a step that unpacks a super image and completes (it persists
\* super_info) leaves the A/B names normalised: <name>_a.img has become
\* <name>.img exactly when neither <name>.img nor a <name>_b counterpart
\* existed, no zero-length _b image is left, and every new file name is an
\* extracted name without its trailing _a.
C5_ABNormalized ==
    [][\A c \in Calls :
          (SuperInfoKey \notin DOMAIN reg /\ SuperInfoKey \in DOMAIN reg')
          => ABNormalized(lpunpack(fs.img, SuperName,
                                   IF call'[c].form = "super" THEN Range(call'[c].chose)
                                   ELSE {}),
                          fs'.img)]_vars

\* The content total S with its overhead, S + S/64 (+ 16 MiB above 100 MiB),
\* in whole bytes, and whether that is the exact value.
TotalFloor(S) ==
    LET t == S + (S \div 64)
    IN IF t > 104857600 \/ (t = 104857600 /\ S % 64 # 0) THEN t + 16777216 ELSE t

TotalExact(S) == S % 64 = 0

\* v is the smallest multiple of 4096 that is not below x
SmallestMultiple(v, x) == v % 4096 = 0 /\ v >= x /\ v - 4096 < x

\* C6 (as claimed): the quantized size is 2,097,152 when the total with
\* overhead is at most 2 MiB and otherwise the smallest multiple of 4096 not
\* below the total with overhead; it is never 1,048,576.
C6_Quantized ==
    (gfs.pc = "done" /\ gfs.get = 2) =>
        LET fl == TotalFloor(gfs.size)
            ce == IF TotalExact(gfs.size) THEN fl ELSE fl + 1
            v  == gfs.rsize_v.i * gfs.num
        IN /\ v # 1048576
           /\ IF ce <= 2097152 THEN v = 2097152 ELSE SmallestMultiple(v, ce)

\* C6 (amended): the quantized size is 2,097,152 when the total with overhead
\* is at most 2 MiB and otherwise the smallest multiple of 4096 not below
\* the total with overhead truncated to whole bytes; it is never 1,048,576,
\* and with a divisor num the estimate is that size divided by num.
C6_Amended ==
    (gfs.pc = "done" /\ gfs.get = 2) =>
        LET fl == TotalFloor(gfs.size)
            ce == IF TotalExact(gfs.size) THEN fl ELSE fl + 1
            v  == gfs.rsize_v.i * gfs.num
        IN /\ v # 1048576
           /\ gfs.rsize_v.i # 1048576
           /\ gfs.rsize_v.f = 0
           /\ IF ce <= 2097152 THEN v = 2097152 ELSE SmallestMultiple(v, fl)

\* A total whose overhead has a fraction and whose whole bytes are a
\* multiple of 4096 above 2 MiB.
C6_Witness ==
    /\ gfs.pc = "done" /\ gfs.get = 2 /\ gfs.num = 1
    /\ gfs.size = 2068922
    /\ gfs.rsize_v.i = 2101248

\* The line is pre followed by nothing but digits.
IsNumbered(line, pre) ==
    /\ StartsWith(line, pre)
    /\ Len(line) > Len(pre)
    /\ \A k \in (Len(pre) + 1)..Len(line) : IsDigit(line[k])

\* What the patch for partition P with size S makes of one line.
Patched(line, P, S) ==
    CASE IsNumbered(line, ResizePre(P)) -> ResizePre(P) \o Digits(S)
      [] IsNumbered(line, ResizePre(P \o <<"_a">>)) -> ResizePre(P \o <<"_a">>) \o Digits(S)
      [] IsNumbered(line, GrowPre(P)) -> GrowPre(P) \o Digits(S)
      [] IsNumbered(line, GrowPre(P \o <<"_a">>)) -> GrowPre(P \o <<"_a">>) \o Digits(S)
      [] OTHER -> line

C8_DatToRaw ==
    (cv.pc = "done" /\ cv.f_get = "raw" /\ cv.hget = "dat" /\ cv.f0.dat = "full"
        /\ cv.sdat = "ok")
    => IF cv.f0.tl
       THEN /\ cv.f.img # "none"
            /\ cv.f.dat = "none"
            /\ ~cv.f.tl
            /\ cv.f.patch = "none"
       ELSE /\ "transferfile" \in cv.msgs
            /\ cv.f = cv.f0

\* The canonical names of a part list: the names without their slot suffix.
Canonical(part_list) ==
    {IF endswith_a(q) \/ endswith_b(q) THEN Stem(q) ELSE q : q \in Range(part_list)}

\* The positions of the command that hold a k.
Entries(cmd, k) == {j \in DOMAIN cmd : cmd[j].k = k}

\* The command has exactly one partition entry of that name, of that size,
\* in that group.
OnePartition(cmd, name, size, grp) ==
    /\ Cardinality({j \in Entries(cmd, "partition") : cmd[j].name = name}) = 1
    /\ \A j \in Entries(cmd, "partition") :
          cmd[j].name = name => (cmd[j].size = size /\ cmd[j].grp = grp)

\* The entry of that name is backed by that image file, and by no other.
BackedBy(cmd, name, file) ==
    /\ \E j \in Entries(cmd, "image") : cmd[j].name = name /\ cmd[j].file = file
    /\ \A j \in Entries(cmd, "image") : cmd[j].name = name => cmd[j].file = file

Unbacked(cmd, name) == \A j \in Entries(cmd, "image") : cmd[j].name # name

\* C9: the command of A-only mode has one device of the total size, one
\* group of the total size, and for every canonical partition name one
\* partition entry, in that group, of the byte length of <name>.img and
\* backed by <name>.img; it has no other partition entry.
C9_AOnly ==
    (psup.pc = "done" /\ psup.super_type = 1 /\ ~psup.raised) =>
        LET cmd == psup.command
        IN /\ Cardinality(Entries(cmd, "device")) = 1
           /\ \A j \in Entries(cmd, "device") : cmd[j].size = psup.size
           /\ Cardinality(Entries(cmd, "group")) = 1
           /\ \A j \in Entries(cmd, "group") :
                 cmd[j].size = psup.size /\ cmd[j].grp = psup.group_name
           /\ \A q \in Canonical(psup.part_list) :
                 /\ OnePartition(cmd, q, psup.im1[q], psup.group_name)
                 /\ BackedBy(cmd, q, q)
           /\ \A j \in Entries(cmd, "partition") :
                 cmd[j].name \in Canonical(psup.part_list)

C9_Witness ==
    /\ psup.pc = "done" /\ psup.super_type = 1 /\ ~psup.raised
    /\ psup.part_list = <<<<"sys", "_a">>, <<"sys", "_b">>>>
    /\ <<"sys", "_a">> \notin DOMAIN psup.im1
    /\ Entries(psup.command, "partition") # {}
    /\ \A j \in Entries(psup.command, "partition") : psup.command[j].size = 8192

\* The groups and the _a entries of the two-slot modes.
TwoSlotFrame(cmd) ==
    /\ Cardinality(Entries(cmd, "group")) = 2
    /\ \E j \in Entries(cmd, "group") : cmd[j].grp = Append(psup.group_name, "_a")
    /\ \E j \in Entries(cmd, "group") : cmd[j].grp = Append(psup.group_name, "_b")
    /\ \A j \in Entries(cmd, "group") : cmd[j].size = psup.size
    /\ Cardinality(Entries(cmd, "device")) = 1
    /\ \A j \in Entries(cmd, "device") : cmd[j].size = psup.size
    /\ \A q \in Canonical(psup.part_list) :
          /\ OnePartition(cmd, Append(q, "_a"), psup.im1[q], Append(psup.group_name, "_a"))
          /\ BackedBy(cmd, Append(q, "_a"), q)
    /\ \A j \in Entries(cmd, "partition") :
          \E q \in Canonical(psup.part_list) :
              cmd[j].name \in {Append(q, "_a"), Append(q, "_b")}

SizeGuarded ==
    (dlg.last.ran /\ dlg.last.sum > dlg.last.req) =>
        /\ psup.pc = "new" /\ ~psup.called
        /\ dlg.pc = "open" /\ dlg.asked /\ dlg.last.ret = "False"
        /\ dlg.last.adj >= dlg.last.sum
        /\ verify_size(dlg.last.sum, dlg.last.adj) = <<dlg.last.adj, TRUE>>

\* C11: the size of the entry is the adjusted size after every start_, and
\* when the latest start_ has found the sum of the selected images
\* above the requested size, it has not run pack_super (lpmake is not
\* called), it has asked the user, the size of the entry is now at least
\* that sum, and verify_size with the same selection and the new size
\* passes.
C11_SizeGuard ==
    /\ []SizeGuarded
    /\ [][dlg'.last # dlg.last => dlg'.super_size = dlg'.last.adj]_vars

C11_Witness ==
    /\ dlg.last.ran /\ dlg.last.sum = 700 /\ dlg.last.req = 100
    /\ dlg.last.adj = 1792 /\ dlg.asked /\ psup.pc = "new"

\* the size the request reaches in k quarter-gigabyte steps
Grown(req, k) == req + k * (GiB \div 4)

\* C12: when the sum of the selected images is above the requested size,
\* the adjusted size is the requested size plus k quarter-gigabyte steps,
\* k being the smallest number of steps, at most 20, with which the sum
\* fits.
C12_QuarterSteps ==
    (dlg.last.ran /\ dlg.last.sum > dlg.last.req) =>
        \A k \in 0..20 :
            (/\ Grown(dlg.last.req, k) >= dlg.last.sum
             /\ \A j \in 0..(k - 1) : Grown(dlg.last.req, j) < dlg.last.sum)
            => dlg.last.adj = Grown(dlg.last.req, k)

C14_EncodesRaw ==
    (cv.pc = "done" /\ cv.f_get = "dat" /\ cv.hget \in {"raw", "sparse"}
        /\ cv.enc_on # "")
    => cv.enc_on = "raw"

\* At least one of <name>.img, <name>.new.dat and <name>.new.dat.br is there.
Represented(f) == f.img # "none" \/ f.dat # "none" \/ f.br # "none"

\* C15: after a conversion to dat or br, the <name>.img is still there when
\* utils.img2sdat has not written the .new.dat, the .new.dat is still there
\* when brotli has not written the .br, and one of the three files of the
\* partition is there in any case.
C15_ConsumedKept ==
    (cv.pc = "done" /\ cv.f_get \in {"dat", "br"} /\ cv.hget \in {"raw", "sparse", "dat"})
    => /\ "img2sdat:fail" \in cv.log => cv.f.img # "none"
       /\ "brotli:fail" \in cv.log => cv.f.dat # "none"
       /\ Represented(cv.f)

\* C16: after a raw-to-sparse conversion the image is another file only when
\* img2simg has written its output, and a file is at the path of the image.
C16_ReplaceOnSuccess ==
    (cv.pc = "done" /\ cv.f_get = "sparse" /\ cv.hget = "raw")
    => /\ cv.f.img # cv.f0.img => "img2simg:ok" \in cv.log
       /\ cv.f.img # "none"

\* C17: a payload unpack runs the reader at most twice; the first run is
\* not slow; a second run is there only after the first has raised
\* RuntimeError, and it is slow; when the second run raises, the call ends
\* without returning True and with its partitions failed; and a call that
\* has returned True has ended with a run that went well.
C17_OneSlowRetry ==
    \A c \in Calls :
        call[c].form = "payload" =>
            LET d == call[c].dump
            IN /\ Len(d) <= 2
               /\ Len(d) >= 1 => ~d[1].slow
               /\ Len(d) = 2 => (d[1].res = "RuntimeError" /\ d[2].slow)
               /\ (Len(d) = 1 /\ d[1].res = "RuntimeError") => call[c].pc = "loop"
               /\ (Len(d) = 2 /\ d[2].res # "ok")
                     => (call[c].ret = "None" /\ call[c].failed # {})
               /\ (call[c].pc = "done" /\ call[c].ret = "True")
                     => (d # <<>> /\ d[Len(d)].res = "ok")

C17_Witness ==
    \E c \in Calls :
        /\ call[c].form = "payload" /\ call[c].pc = "done"
        /\ Len(call[c].dump) = 2
        /\ call[c].dump[2].res = "RuntimeError"
        /\ call[c].ret = "None"

\* C18: in a pack run on an existing project every selected partition that
\* has its fs_config is either built or reported as failed, never both; the
\* image of a built partition is in the output directory; the extracted
\* directory and the fs_config of a failed partition are still there.  So a
\* builder that fails for one partition stops neither the partitions before
\* it nor those after it.
C18_SiblingsBuilt ==
    [][\A c \in Calls :
          (call[c].pc = "idle" /\ call'[c].pc = "done" /\ call'[c].form = "pack"
              /\ call'[c].ret = "None")
          => /\ Range(call'[c].chose) \cap fs.fsc
                    = call'[c].built \cup call'[c].failed
             /\ call'[c].built \cap call'[c].failed = {}
             /\ \A n \in call'[c].built : n \in DOMAIN out_img(fs', proj')
             /\ \A n \in call'[c].failed : n \in fs'.dirs /\ n \in fs'.fsc]_vars

C18_Witness ==
    \E c \in Calls :
        /\ call[c].pc = "done" /\ call[c].form = "pack" /\ call[c].del
        /\ call[c].chose = <<<<"sys">>, SuperName>>
        /\ call[c].failed = {<<"sys">>} /\ call[c].built = {SuperName}
        /\ <<"sys">> \in fs.dirs /\ SuperName \notin fs.dirs

\* C19: a call of unpack takes the whole persisted registry as its copy when
\* it starts, and the write at its end makes its copy the persisted
\* registry, whatever another call has written in between.  With two calls
\* that overlap the record one of them has written is then missing.
C19_WholeCopy ==
    [][\A c \in DOMAIN call :
          /\ (call[c].pc = "idle" /\ call'[c].pc = "loop") => call'[c].parts = reg
          /\ (call[c].pc = "loop" /\ call'[c].pc = "done" /\ call'[c].ret = "True"
                 /\ call[c].idx > Len(call[c].chose))
             => reg' = call[c].parts]_vars

\* Both calls have returned True, and a record that one of them has written
\* is not in the persisted registry.
C19_Witness ==
    /\ DOMAIN call = RaceCalls
    /\ \A c \in RaceCalls : call[c].pc = "done" /\ call[c].ret = "True"
    /\ call[1].chose = <<<<"sys">>>> /\ call[2].chose = <<<<"vnd">>>>
    /\ call[1].recd = {<<"sys">>} /\ call[2].recd = {<<"vnd">>}
    /\ DOMAIN reg = {<<"vnd">>}

\* C20: states.open_pids holds exactly the pids of the children that run,
\* and it is empty when no thread is inside call().
C20_OpenPids ==
    /\ Range(procs.open_pids) = procs.live
    /\ (\A t \in Threads : procs.th[t].pc \in {"idle", "returned"})
          => procs.open_pids = <<>>

\* The names of a part list with one trailing _a or _b taken off.
Stripped(part_list) ==
    [j \in DOMAIN part_list |->
        IF endswith_a(part_list[j]) \/ endswith_b(part_list[j])
        THEN Stem(part_list[j]) ELSE part_list[j]]

\* The first place of x in the sequence l.
FirstAt(l, x) == CHOOSE j \in DOMAIN l : l[j] = x /\ \A k \in 1..(j - 1) : l[k] # x

\* The canonical names that had only a <name>_a.img before the rename step.
OnlySlotA(r) ==
    {q \in Range(r.lb_c) :
        Append(q, "_a") \in DOMAIN r.im0 /\ q \notin DOMAIN r.im0}

\* The canonical list is the stripped selection, each name once, in the
\* order of first occurrence.
CanonicalList(r) ==
    LET st == Stripped(r.part_list)
        lb == r.lb_c
    IN /\ Range(lb) = Range(st)
       /\ \A j, k \in DOMAIN lb : j < k => FirstAt(st, lb[j]) < FirstAt(st, lb[k])

\* C21 (amended): the canonical list of pack_super holds the names of the
\* selection with one trailing _a or _b taken off, each once, in the order in
\* which they first occur; when os.rename works, every canonical name that
\* had a <name>_a.img and no <name>.img has a <name>.img after the rename
\* step, with the length of that _a image; when os.rename fails such a name
\* still has no <name>.img and no command is emitted; and every image file
\* an emitted command names is in the working directory.
C21_CanonicalSources ==
    psup.pc = "done" =>
        /\ CanonicalList(psup)
        /\ psup.mv =>
              \A q \in OnlySlotA(psup) :
                  q \in DOMAIN psup.im1 /\ psup.im1[q] = psup.im0[Append(q, "_a")]
        /\ (~psup.mv /\ OnlySlotA(psup) # {}) =>
              (psup.command = <<>> /\ psup.raised
               /\ \A q \in OnlySlotA(psup) : q \notin DOMAIN psup.im1)
        /\ \A j \in Entries(psup.command, "image") :
              psup.command[j].file \in DOMAIN psup.im1

\* C21 as stated: after the rename step every canonical name that had only
\* a <name>_a.img has a <name>.img.
C21_AlwaysRenamed ==
    psup.pc = "done" =>
        /\ CanonicalList(psup)
        /\ \A q \in OnlySlotA(psup) : q \in DOMAIN psup.im1
        /\ \A j \in Entries(psup.command, "image") :
              psup.command[j].file \in DOMAIN psup.im1

C21_Witness ==
    /\ psup.pc = "done" /\ psup.command # <<>> /\ psup.mv
    /\ psup.part_list = <<<<"vnd">>, <<"sys", "_b">>, <<"sys">>>>
    /\ psup.lb_c = <<<<"vnd">>, <<"sys">>>>
    /\ <<"sys">> \notin DOMAIN psup.im0 /\ <<"sys", "_a">> \in DOMAIN psup.im0
    /\ <<"sys">> \in DOMAIN psup.im1

\* The segments of the set ix, each holding its index, in ascending order.
RECURSIVE Ascending(_)
Ascending(ix) ==
    IF ix = {} THEN <<>>
    ELSE LET n == CHOOSE x \in ix : \A y \in ix : x <= y
         IN <<n>> \o Ascending(ix \ {n})

\* C22: when numbered segments are present, after the reassembly
\* <name>.new.dat is the concatenation of all segments in ascending order of
\* their index and no numbered segment is left, whichever indices are
\* present and whether or not <name>.new.dat was there before.
C22_Reassembled ==
    (sg # Idle /\ sg.pc = "done" /\ sg.segs0 # {}) =>
        /\ sg.there /\ sg.dat = Ascending(sg.segs0)
        /\ DOMAIN sg.segs = {}

\* C23: in the loose-partition unpack no step other than the conversion to
\* raw is handed an image that the classifier still calls sparse, and the
\* type the registry keeps for a partition is never sparse: it is the type
\* of the converted raw image.
C23_RawFirst ==
    \A c \in Calls :
        /\ \A j \in DOMAIN call[c].steps :
              call[c].steps[j].step # "simg2img" => call[c].steps[j].t # "sparse"
        /\ \A n \in DOMAIN call[c].parts : call[c].parts[n] # "sparse"
        /\ \A n \in DOMAIN reg : reg[n] # "sparse"

FsTypes == {"ext", "erofs", "f2fs", "romfs"}

\* The iteration of call c over the image of a file-system partition.
FsStep(c) ==
    /\ call[c].pc = "loop" /\ call[c].form = ""
    /\ call'[c].idx = call[c].idx + 1
    /\ LET i == call[c].chose[call[c].idx]
       IN i \in DOMAIN fs.img /\ fs.img[i].inner \in FsTypes

\* C24: the iteration over an ext, erofs, f2fs or romfs image removes the
\* image if and only if its extraction has produced the partition's
\* directory in this iteration.
C24_RemovedIffExtracted ==
    [][\A c \in Calls :
          FsStep(c) =>
              LET i == call[c].chose[call[c].idx]
              IN (i \notin DOMAIN fs'.img) <=> (i \in call'[c].xok)]_vars

\* C25: when mke2fs or e2fsdroid fails, the builder returns a non-zero code,
\* <name>_new.img is no longer in the output directory and <name>.img of
\* the output directory is as it was before the call, in the single and in
\* the split layout.
C25_FailureCleansUp ==
    (mk # Idle /\ mk.pc = "done" /\ mk.at \in {"mke2fs", "e2fsdroid"}) =>
        /\ mk.ret # 0
        /\ mk.out.new = "none"
        /\ mk.out.img = mk.img0

\* C26: when a batch that has replayed a transfer list is over, the version
\* it found is in the persisted registry; the repack that follows encodes
\* with that version, and with version 4 only when the batch found none.
C26_VersionKept ==
    \A c \in Calls :
        /\ (call[c].pc = "done" /\ call[c].form = "" /\ call[c].ver # "") =>
              (DatVerKey \in DOMAIN reg /\ reg[DatVerKey] = call[c].ver)
        /\ (call[c].pc = "done" /\ call[c].form = "pack" /\ call[c].ret = "None") =>
              call[c].enc_ver = (IF call[c].ver # "" THEN call[c].ver ELSE "4")

\* The names of the groups of a list.
ListGroups(lst) == {lst.data[j].name : j \in DOMAIN lst.data}

\* C27: for every resize-operation list the reconstruction ends without an
\* error; when it holds <g>_a and <g>_b the dialog has group g, a two-slot
\* mode, the size of <g>_a and the partitions of <g>_a (with the unsuffixed
\* names added after them); when it holds a single group the dialog has that
\* group's name, size and partitions in A-only mode.
C27_Reconstructed ==
    (rd # Idle /\ rd.pc = "done" /\ rd.lst.there /\ ~rd.lst.raises) =>
        /\ rd.err = ""
        /\ \A g \in {<<"g">>, <<"h">>} :
              ({g \o <<"_", "a">>, g \o <<"_", "b">>} \subseteq ListGroups(rd.lst)) =>
                  LET ga == Group(g \o <<"_", "a">>)
                  IN /\ rd.group_name = g
                     /\ rd.super_type \in {2, 3}
                     /\ rd.super_size = ga.size
                     /\ Len(rd.selected) >= Len(ga.parts)
                     /\ SubSeq(rd.selected, 1, Len(ga.parts)) = ga.parts
        /\ Len(rd.lst.data) = 1 =>
              /\ rd.group_name = rd.lst.data[1].name
              /\ rd.super_type = 1
              /\ rd.super_size = rd.lst.data[1].size
              /\ rd.selected = rd.lst.data[1].parts

\* C28: in every slot mode the device an emitted command declares has the
\* name the command gives as super name, and that is the block device name
\* asked for, or super when none was asked for.
C28_DeviceIsSuperName ==
    (psup.pc = "done" /\ psup.command # <<>>) =>
        LET cmd == psup.command
            asked == IF psup.bdn = <<>> THEN <<"super">> ELSE psup.bdn
        IN /\ Entries(cmd, "device") # {} /\ Entries(cmd, "super-name") # {}
           /\ \A k \in Entries(cmd, "super-name") : cmd[k].name = asked
           /\ \A j \in Entries(cmd, "device") : cmd[j].name = asked

\* C29: a call of set_project with a name makes that name the current
\* project if and only if the name has a project directory, whatever project
\* was current before the call.
C29_SelectsIffExists ==
    (pm # Idle /\ pm.pc = "done") =>
        /\ pm.set <=> (pm.arg \in pm.dirs)
        /\ pm.current = (IF pm.arg \in pm.dirs THEN pm.arg ELSE pm.prev)

\* C30: when unpack_boot or dboot has returned, on whatever path, the
\* working directory of the process is the one it was before the call.
C30_CwdRestored ==
    (bt # Idle /\ bt.pc = "done") => bt.cwd = bt.cwd0

=============================================================================
